---------------------------- MODULE Spec2Model ----------------------------
(***************************************************************************)
(* A model of depfence: the rule engine (analyzer/rules.ts), the online    *)
(* registry checker (analyzer/registry-checker.ts), the result assembler   *)
(* (analyzer/analyzer.ts) and the scan entry point (index.ts).             *)
(*                                                                         *)
(* Text is modelled as a sequence of tokens.  Package names, scopes and    *)
(* version ranges are sequences of single characters, so that startsWith,  *)
(* indexOf, split and the regular expressions of the code are computed on  *)
(* them.  URLs are sequences of the tokens scheme, host labels and path.   *)
(* An optional value (T | undefined) is a sequence of length 0 or 1.       *)
(***************************************************************************)
EXTENDS Integers, Sequences, FiniteSets, TLC

VARIABLES
    pc,            \* position of the running entry point
    packageJson,   \* PackageJsonData, the output of parsePackageJson
    lockfile,      \* LockfileData | undefined, the output of parseLockfile
    registryConfig,\* RegistryConfig, the output of parseRegistryConfig
    config,        \* ScanConfig built by buildConfig
    context,       \* ProjectContext handed to analyze
    ruleFindings,  \* the findings pushed by the ALL_RULES loop of analyze
    stages,        \* successive values of `findings` in analyze
    result,        \* ScanResult returned by analyze (findings, summary)
    net,           \* the responses the public registry may give to each probe
    ckArgs,        \* arguments of the running checkPublicRegistry call
    ckPc,          \* position inside checkPublicRegistry
    ckScoped,      \* `scoped` of checkPublicRegistry
    ckI,           \* loop variable i of checkPublicRegistry
    ckBatch,       \* the probes of the current batch: [dep, state, checkResult]
    ckFindings,    \* `findings` of checkPublicRegistry
    probeLog,      \* number of HEAD requests issued per index of `scoped`
    batchLog,      \* sizes of the batches started so far, in order
    outcomeLog,    \* the responses each index of `scoped` has received, in order
    fs,            \* the files of rootDir the parsers read: name -> content | absent
    ws             \* the running scanWorkspace call: its arguments, position and locals

vars == <<pc, packageJson, lockfile, registryConfig, config, context,
          ruleFindings, stages, result, net, ckArgs, ckPc, ckScoped, ckI,
          ckBatch, ckFindings, probeLog, batchLog, outcomeLog, fs, ws>>

ckVars == <<ckArgs, ckPc, ckScoped, ckI, ckBatch, ckFindings, probeLog, batchLog,
            outcomeLog>>

-----------------------------------------------------------------------------
(* Optional values and text helpers                                        *)

None == <<>>

Some(x) == <<x>>

IsSome(o) == Len(o) = 1

\* JavaScript truthiness of a string | undefined
Truthy(o) == Len(o) = 1 /\ Len(o[1]) > 0

StartsWith(s, p) == Len(s) >= Len(p) /\ SubSeq(s, 1, Len(p)) = p

Includes(s, p) == \E i \in 1..(Len(s) + 1) : i + Len(p) - 1 <= Len(s) /\ SubSeq(s, i, i + Len(p) - 1) = p

\* String.prototype.indexOf for a single character, 0-based, -1 when absent
IndexOf(s, ch) ==
    IF \E i \in 1..Len(s) : s[i] = ch
    THEN (CHOOSE i \in 1..Len(s) : s[i] = ch /\ \A j \in 1..(i - 1) : s[j] # ch) - 1
    ELSE -1

\* s.split(ch)[0]
SplitFirst(s, ch) == IF IndexOf(s, ch) = -1 THEN s ELSE SubSeq(s, 1, IndexOf(s, ch))

RECURSIVE Join(_, _)
\* Array.prototype.join on an array of token sequences
Join(parts, sep) ==
    IF Len(parts) = 0 THEN <<>>
    ELSE IF Len(parts) = 1 THEN parts[1]
    ELSE parts[1] \o sep \o Join(Tail(parts), sep)

RECURSIVE Dedup(_)
\* first occurrences of the elements of s, in order (insertion order of a Set)
Dedup(s) ==
    IF s = <<>> THEN <<>>
    ELSE LET front == Dedup(SubSeq(s, 1, Len(s) - 1))
             last == s[Len(s)]
         IN IF \E i \in 1..Len(front) : front[i] = last THEN front ELSE Append(front, last)

Range(s) == {s[i] : i \in 1..Len(s)}

-----------------------------------------------------------------------------
(* Map<string, V> and Record<string, V>: entries [key, value] in insertion *)
(* order, keys unique                                                      *)

MapHas(m, k) == \E i \in 1..Len(m) : m[i].key = k

\* Map.prototype.get: the value as an optional
MapLookup(m, k) ==
    IF MapHas(m, k) THEN Some(m[CHOOSE i \in 1..Len(m) : m[i].key = k].value) ELSE None

\* Map.prototype.set: an existing key keeps its position and takes the new value
MapSet(m, k, v) ==
    IF MapHas(m, k)
    THEN [i \in 1..Len(m) |-> IF m[i].key = k THEN [key |-> k, value |-> v] ELSE m[i]]
    ELSE Append(m, [key |-> k, value |-> v])

-----------------------------------------------------------------------------
(* Severity                                                                *)

Severities == {"critical", "high", "medium", "low", "info"}

SEVERITY_ORDER == [s \in Severities |->
    CASE s = "critical" -> 0
      [] s = "high" -> 1
      [] s = "medium" -> 2
      [] s = "low" -> 3
      [] s = "info" -> 4]

-----------------------------------------------------------------------------
(* rules.ts                                                                *)

Digits == {"0", "1", "2", "3", "4", "5", "6", "7", "8", "9"}

\* the position after the longest run of digits of s that starts at i
RECURSIVE DigitsEnd(_, _)
DigitsEnd(s, i) == IF i <= Len(s) /\ s[i] \in Digits THEN DigitsEnd(s, i + 1) ELSE i

\* /^\d+\.\d+\.\d+/.test(version)
SemverPrefix(version) ==
    LET a == DigitsEnd(version, 1)
        b == DigitsEnd(version, a + 1)
    IN /\ a > 1
       /\ a <= Len(version) /\ version[a] = "."
       /\ b > a + 1
       /\ b <= Len(version) /\ version[b] = "."
       /\ DigitsEnd(version, b + 1) > b + 1

isPublicRegistry(url) ==
    IF ~Truthy(url) THEN TRUE
    ELSE Includes(url[1], <<"registry.npmjs.org">>) \/ Includes(url[1], <<"registry.yarnpkg.com">>)

\* a leading ^ or ~ taken for decoration of an exact version
isVersionPinned_Lenient(version) ==
    IF StartsWith(version, <<"^">>) \/ StartsWith(version, <<"~">>)
    THEN SemverPrefix(Tail(version))
    ELSE SemverPrefix(version)

isVersionPinned(version) ==
    /\ SemverPrefix(version)
    /\ ~StartsWith(version, <<"^">>)
    /\ ~StartsWith(version, <<"~">>)
    /\ ~Includes(version, <<">", "=">>)
    /\ ~Includes(version, <<"<", "=">>)
    /\ ~Includes(version, <<">">>)
    /\ ~Includes(version, <<"<">>)
    /\ version # <<"*">>
    /\ ~Includes(version, <<"|", "|">>)

getScopedDependencies(ctx) == SelectSeq(ctx.dependencies, LAMBDA dep : dep.isScoped)

Finding(id, sev, title, pkg, ev) ==
    [ruleId |-> id, severity |-> sev, title |-> title, packageName |-> pkg, evidence |-> ev]

\* DC-001
noRegistryConfig(ctx) ==
    LET scoped == getScopedDependencies(ctx)
    IN IF ~ctx.registryConfig.hasConfig /\ Len(scoped) > 0
       THEN <<Finding("DC-001", "high", <<"No registry configuration found">>, None,
                Some(<<"Scoped packages: ">>
                     \o Join([i \in 1..Len(scoped) |-> scoped[i].name], <<", ">>)))>>
       ELSE <<>>

\* DC-002 without the early return on a missing config
scopeWithoutRegistry_NoEarlyReturn(ctx) ==
    LET scoped == getScopedDependencies(ctx)
        defaultIsPrivate == /\ Truthy(ctx.registryConfig.defaultRegistry)
                            /\ ~isPublicRegistry(ctx.registryConfig.defaultRegistry)
        hit == SelectSeq(scoped, LAMBDA dep :
                  ~MapHas(ctx.registryConfig.scopeRegistries, dep.scope[1]) /\ ~defaultIsPrivate)
    IN [i \in 1..Len(hit) |->
          Finding("DC-002", "critical", <<"Scoped package without registry mapping">>,
                  Some(hit[i].name),
                  Some(<<"Scope: ">> \o hit[i].scope[1] \o <<", Version: ">> \o hit[i].version))]

\* DC-002 that does not look at the default registry
scopeWithoutRegistry_IgnoresDefault(ctx) ==
    IF ~ctx.registryConfig.hasConfig THEN <<>>
    ELSE
      LET scoped == getScopedDependencies(ctx)
          hit == SelectSeq(scoped, LAMBDA dep :
                    ~MapHas(ctx.registryConfig.scopeRegistries, dep.scope[1]))
      IN [i \in 1..Len(hit) |->
            Finding("DC-002", "critical", <<"Scoped package without registry mapping">>,
                    Some(hit[i].name),
                    Some(<<"Scope: ">> \o hit[i].scope[1] \o <<", Version: ">> \o hit[i].version))]

\* DC-002
scopeWithoutRegistry(ctx) ==
    IF ~ctx.registryConfig.hasConfig THEN <<>>
    ELSE
      LET scoped == getScopedDependencies(ctx)
          defaultIsPrivate == /\ Truthy(ctx.registryConfig.defaultRegistry)
                              /\ ~isPublicRegistry(ctx.registryConfig.defaultRegistry)
          hit == SelectSeq(scoped, LAMBDA dep :
                    ~MapHas(ctx.registryConfig.scopeRegistries, dep.scope[1]) /\ ~defaultIsPrivate)
      IN [i \in 1..Len(hit) |->
            Finding("DC-002", "critical", <<"Scoped package without registry mapping">>,
                    Some(hit[i].name),
                    Some(<<"Scope: ">> \o hit[i].scope[1] \o <<", Version: ">> \o hit[i].version))]

\* the lockfile's packages.get(name), as an optional LockfileEntry
LockEntry(ctx, name) == MapLookup(ctx.lockfile[1].packages, name)

\* DC-003
lockfilePublicResolution(ctx) ==
    IF ~IsSome(ctx.lockfile) THEN <<>>
    ELSE
      LET scoped == getScopedDependencies(ctx)
          hit == SelectSeq(scoped, LAMBDA dep :
                    /\ MapHas(ctx.registryConfig.scopeRegistries, dep.scope[1])
                    /\ IsSome(LockEntry(ctx, dep.name))
                    /\ Truthy(LockEntry(ctx, dep.name)[1].resolved)
                    /\ isPublicRegistry(LockEntry(ctx, dep.name)[1].resolved))
      IN [i \in 1..Len(hit) |->
            Finding("DC-003", "critical", <<"Scoped package resolved from public registry">>,
                    Some(hit[i].name),
                    Some(<<"Resolved URL: ">> \o LockEntry(ctx, hit[i].name)[1].resolved[1]))]

\* DC-004
missingLockfile(ctx) ==
    IF IsSome(ctx.lockfile) THEN <<>>
    ELSE <<Finding("DC-004", "high", <<"No lockfile found">>, None, None)>>

\* DC-005
noIntegrityHash(ctx) ==
    IF ~IsSome(ctx.lockfile) THEN <<>>
    ELSE
      LET hit == SelectSeq(ctx.dependencies, LAMBDA dep :
                    /\ IsSome(LockEntry(ctx, dep.name))
                    /\ ~Truthy(LockEntry(ctx, dep.name)[1].integrity))
      IN [i \in 1..Len(hit) |->
            Finding("DC-005", "medium", <<"Missing integrity hash in lockfile">>,
                    Some(hit[i].name), None)]

\* DC-006
installScriptsRisk(ctx) ==
    LET pj == ctx.packageJson
        own == IF pj.hasPreinstall \/ pj.hasPostinstall \/ pj.hasInstall
               THEN <<Finding("DC-006", "medium", <<"Install scripts detected">>, pj.name,
                        Some(Join(  (IF pj.hasPreinstall THEN <<<<"preinstall">>>> ELSE <<>>)
                                 \o (IF pj.hasInstall THEN <<<<"install">>>> ELSE <<>>)
                                 \o (IF pj.hasPostinstall THEN <<<<"postinstall">>>> ELSE <<>>),
                                 <<", ">>)))>>
               ELSE <<>>
        hit == SelectSeq(ctx.dependencies, LAMBDA dep : dep.hasInstallScripts /\ dep.isScoped)
    IN own \o [i \in 1..Len(hit) |->
            Finding("DC-006", "high", <<"Scoped dependency has install scripts">>,
                    Some(hit[i].name), Some(<<"hasInstallScripts: true in lockfile">>))]

\* DC-007
unpinnedScopedVersion(ctx) ==
    LET scoped == getScopedDependencies(ctx)
        hit == SelectSeq(scoped, LAMBDA dep : ~isVersionPinned(dep.version))
    IN [i \in 1..Len(hit) |->
            Finding("DC-007", "medium", <<"Unpinned version on scoped package">>,
                    Some(hit[i].name), Some(<<"Version: ">> \o hit[i].version))]

UrlSchemes == {"https://", "http://"}

\* new URL(url).hostname, undefined when the URL does not parse
extractRegistryHost(url) ==
    IF Len(url) >= 2 /\ url[1] \in UrlSchemes /\ url[2] # "/"
    THEN LET rest == SubSeq(url, 2, Len(url))
         IN Some(SplitFirst(rest, "/"))
    ELSE None

\* DC-009
mixedScopeRegistries(ctx) ==
    IF ~IsSome(ctx.lockfile) THEN <<>>
    ELSE
      LET grouped == SelectSeq(ctx.dependencies, LAMBDA dep :
                        /\ dep.isScoped /\ Truthy(dep.scope)
                        /\ IsSome(LockEntry(ctx, dep.name))
                        /\ Truthy(LockEntry(ctx, dep.name)[1].resolved)
                        /\ Truthy(extractRegistryHost(LockEntry(ctx, dep.name)[1].resolved[1])))
          hostOf(dep) == extractRegistryHost(LockEntry(ctx, dep.name)[1].resolved[1])[1]
          scopes == Dedup([i \in 1..Len(grouped) |-> grouped[i].scope[1]])
          registries(scope) ==
              LET members == SelectSeq(grouped, LAMBDA dep : dep.scope[1] = scope)
              IN Dedup([i \in 1..Len(members) |-> hostOf(members[i])])
          scopePackages(scope) ==
              LET members == SelectSeq(grouped, LAMBDA dep : dep.scope[1] = scope)
              IN [i \in 1..Len(members) |-> members[i].name]
          mixed == SelectSeq(scopes, LAMBDA scope : Len(registries(scope)) > 1)
      IN [i \in 1..Len(mixed) |->
            Finding("DC-009", "high", <<"Mixed registries for same scope">>, None,
                    Some(<<"Registries: ">> \o Join(registries(mixed[i]), <<", ">>)
                         \o <<"; Packages: ">> \o Join(scopePackages(mixed[i]), <<", ">>)))]

\* DC-010
privateRegistryConfigured(ctx) ==
    LET rc == ctx.registryConfig
        own == IF Truthy(rc.defaultRegistry) /\ ~isPublicRegistry(rc.defaultRegistry)
               THEN <<Finding("DC-010", "info", <<"Private registry configured">>, None,
                        Some(<<"Registry: ">> \o rc.defaultRegistry[1]))>>
               ELSE <<>>
        hit == SelectSeq(rc.scopeRegistries, LAMBDA e : ~isPublicRegistry(Some(e.value)))
    IN own \o [i \in 1..Len(hit) |->
            Finding("DC-010", "info", <<"Private registry configured for ">> \o hit[i].key, None,
                    Some(<<"Scope: ">> \o hit[i].key \o <<", Registry: ">> \o hit[i].value))]

\* the findings pushed by `for (const rule of ALL_RULES)`
ALL_RULES(ctx) ==
       noRegistryConfig(ctx)
    \o scopeWithoutRegistry(ctx)
    \o lockfilePublicResolution(ctx)
    \o missingLockfile(ctx)
    \o noIntegrityHash(ctx)
    \o installScriptsRisk(ctx)
    \o unpinnedScopedVersion(ctx)
    \o mixedScopeRegistries(ctx)
    \o privateRegistryConfigured(ctx)

-----------------------------------------------------------------------------
(* index.ts and config.ts                                                  *)

\* Partial<ScanConfig> -> ScanConfig (rootDir and format play no part in a scan's result)
buildConfig(overrides) ==
    [offline |-> IF IsSome(overrides.offline) THEN overrides.offline[1] ELSE TRUE,
     severityThreshold |-> IF IsSome(overrides.severityThreshold)
                           THEN overrides.severityThreshold[1] ELSE "info",
     scopes |-> overrides.scopes,
     ignorePackages |-> overrides.ignorePackages]

\* addDeps(entries, isDev) of buildDependencies
addDeps(entries, isDev, lf) ==
    [i \in 1..Len(entries) |->
        LET name == entries[i].key
            isScoped == StartsWith(name, <<"@">>)
            lockEntry == IF IsSome(lf) THEN MapLookup(lf[1].packages, name) ELSE None
        IN [name |-> name,
            version |-> entries[i].value,
            scope |-> IF isScoped THEN Some(SplitFirst(name, "/")) ELSE None,
            isScoped |-> isScoped,
            isDev |-> isDev,
            resolvedUrl |-> IF IsSome(lockEntry) THEN lockEntry[1].resolved ELSE None,
            integrity |-> IF IsSome(lockEntry) THEN lockEntry[1].integrity ELSE None,
            hasInstallScripts |-> IF IsSome(lockEntry) /\ IsSome(lockEntry[1].hasInstallScripts)
                                  THEN lockEntry[1].hasInstallScripts[1] ELSE FALSE]]

buildDependencies(pj, lf) ==
    addDeps(pj.dependencies, FALSE, lf) \o addDeps(pj.devDependencies, TRUE, lf)

\* the ProjectContext literal of scanForConfusion
BuildContext(pj, lf, rc) ==
    [packageJson |-> pj,
     dependencies |-> buildDependencies(pj, lf),
     registryConfig |-> rc,
     lockfile |-> lf]

-----------------------------------------------------------------------------
(* analyzer.ts                                                             *)

extractScope(packageName) ==
    IF StartsWith(packageName, <<"@">>) /\ IndexOf(packageName, "/") > 0
    THEN Some(SubSeq(packageName, 1, IndexOf(packageName, "/")))
    ELSE None

\* the scope filter with `: false` for a name without a scope
FilterByScope_DropsUnscoped(findings, scopes) ==
    IF IsSome(scopes) /\ Len(scopes[1]) > 0
    THEN SelectSeq(findings, LAMBDA f :
            IF ~Truthy(f.packageName) THEN TRUE
            ELSE LET scope == extractScope(f.packageName[1])
                 IN IF Truthy(scope) THEN scope[1] \in Range(scopes[1]) ELSE FALSE)
    ELSE findings

\* `// Filter by scope`
FilterByScope(findings, scopes) ==
    IF IsSome(scopes) /\ Len(scopes[1]) > 0
    THEN SelectSeq(findings, LAMBDA f :
            IF ~Truthy(f.packageName) THEN TRUE
            ELSE LET scope == extractScope(f.packageName[1])
                 IN IF Truthy(scope) THEN scope[1] \in Range(scopes[1]) ELSE TRUE)
    ELSE findings

\* the ignore filter without the `!f.packageName ||` guard, over a set of optional names
FilterByIgnored_NoGuard(findings, ignorePackages) ==
    IF IsSome(ignorePackages) /\ Len(ignorePackages[1]) > 0
    THEN SelectSeq(findings, LAMBDA f :
            Truthy(f.packageName) /\ f.packageName[1] \notin Range(ignorePackages[1]))
    ELSE findings

\* `// Filter by ignored packages`
FilterByIgnored(findings, ignorePackages) ==
    IF IsSome(ignorePackages) /\ Len(ignorePackages[1]) > 0
    THEN SelectSeq(findings, LAMBDA f :
            ~Truthy(f.packageName) \/ f.packageName[1] \notin Range(ignorePackages[1]))
    ELSE findings

\* the threshold filter with the comparison turned around
FilterBySeverity_Reversed(findings, severityThreshold) ==
    SelectSeq(findings, LAMBDA f :
        SEVERITY_ORDER[f.severity] >= SEVERITY_ORDER[severityThreshold])

\* `// Filter by severity threshold`
FilterBySeverity(findings, severityThreshold) ==
    SelectSeq(findings, LAMBDA f :
        SEVERITY_ORDER[f.severity] <= SEVERITY_ORDER[severityThreshold])

\* one insertion of the stable sort: f goes after every element that does not compare greater
RECURSIVE InsertBySeverity(_, _)
InsertBySeverity(sorted, f) ==
    IF sorted = <<>> THEN <<f>>
    ELSE LET last == sorted[Len(sorted)]
         IN IF SEVERITY_ORDER[last.severity] - SEVERITY_ORDER[f.severity] > 0
            THEN Append(InsertBySeverity(SubSeq(sorted, 1, Len(sorted) - 1), f), last)
            ELSE Append(sorted, f)

RECURSIVE SortFrom(_, _)
SortFrom(sorted, rest) ==
    IF rest = <<>> THEN sorted ELSE SortFrom(InsertBySeverity(sorted, Head(rest)), Tail(rest))

RECURSIVE InsertBeforeEqual(_, _)
InsertBeforeEqual(sorted, f) ==
    IF sorted = <<>> THEN <<f>>
    ELSE LET last == sorted[Len(sorted)]
         IN IF SEVERITY_ORDER[last.severity] - SEVERITY_ORDER[f.severity] >= 0
            THEN Append(InsertBeforeEqual(SubSeq(sorted, 1, Len(sorted) - 1), f), last)
            ELSE Append(sorted, f)

RECURSIVE SortFromUnstable(_, _)
SortFromUnstable(sorted, rest) ==
    IF rest = <<>> THEN sorted
    ELSE SortFromUnstable(InsertBeforeEqual(sorted, Head(rest)), Tail(rest))

\* a sort that orders by severity and does not keep the order of ties
SortBySeverity_Unstable(findings) == SortFromUnstable(<<>>, findings)

\* findings.sort((a, b) => SEVERITY_ORDER[a.severity] - SEVERITY_ORDER[b.severity]),
\* Array.prototype.sort being stable
SortBySeverity(findings) == SortFrom(<<>>, findings)

CountSeverity(findings, sev) == Len(SelectSeq(findings, LAMBDA f : f.severity = sev))

\* the summary with the `low` line copied from the `info` line
buildSummary_CopiedLine(findings) ==
    [total |-> Len(findings),
     critical |-> CountSeverity(findings, "critical"),
     high |-> CountSeverity(findings, "high"),
     medium |-> CountSeverity(findings, "medium"),
     low |-> CountSeverity(findings, "info"),
     info |-> CountSeverity(findings, "info")]

buildSummary(findings) ==
    [total |-> Len(findings),
     critical |-> CountSeverity(findings, "critical"),
     high |-> CountSeverity(findings, "high"),
     medium |-> CountSeverity(findings, "medium"),
     low |-> CountSeverity(findings, "low"),
     info |-> CountSeverity(findings, "info")]

-----------------------------------------------------------------------------
(* registry-checker.ts                                                     *)

DefaultConcurrency == 5

\* what one HEAD request can come to: a response with a status, or a throw
\* (network failure, or the abort of AbortSignal.timeout)
Responses ==
    {[threw |-> FALSE, status |-> 200],
     [threw |-> FALSE, status |-> 404],
     [threw |-> FALSE, status |-> 503],
     [threw |-> TRUE, status |-> 0]}

\* the catch block taking a failure for an absent package
packageExistsOnPublicNpm_SwallowsError(response) ==
    IF response.threw THEN "not-found"
    ELSE IF response.status = 200 THEN "exists"
    ELSE "not-found"

packageExistsOnPublicNpm(response) ==
    IF response.threw THEN "error"
    ELSE IF response.status = 200 THEN "exists"
    ELSE IF response.status = 404 THEN "not-found"
    ELSE "error"

\* Array.prototype.slice(start, end) for 0 <= start <= end
Slice(s, start, end) ==
    SubSeq(s, start + 1, IF end < Len(s) THEN end ELSE Len(s))

\* `else` in place of `else if (checkResult === 'error')`
ResultFindings_ElseBranch(r) ==
    IF r.state = "rejected" THEN <<>>
    ELSE IF r.checkResult = "exists"
    THEN <<Finding("DC-008", "high", <<"Scoped package exists on public npm">>,
                   Some(r.dep.name),
                   Some(<<"Public npm URL: ", "https://registry.npmjs.org", "/">> \o r.dep.name))>>
    ELSE <<Finding("DC-008", "low", <<"Unable to check public registry">>,
                   Some(r.dep.name), Some(<<"Network check failed">>))>>

\* the findings one settled result of a batch pushes
ResultFindings(r) ==
    IF r.state = "rejected" THEN <<>>
    ELSE IF r.checkResult = "exists"
    THEN <<Finding("DC-008", "high", <<"Scoped package exists on public npm">>,
                   Some(r.dep.name),
                   Some(<<"Public npm URL: ", "https://registry.npmjs.org", "/">> \o r.dep.name))>>
    ELSE IF r.checkResult = "error"
    THEN <<Finding("DC-008", "low", <<"Unable to check public registry">>,
                   Some(r.dep.name), Some(<<"Network check failed">>))>>
    ELSE <<>>

RECURSIVE BatchFindings_LastFirst(_)
\* the results walked from the last to the first
BatchFindings_LastFirst(results) ==
    IF results = <<>> THEN <<>>
    ELSE BatchFindings_LastFirst(Tail(results)) \o ResultFindings(Head(results))

RECURSIVE BatchFindings(_)
\* `for (const result of results)`
BatchFindings(results) ==
    IF results = <<>> THEN <<>>
    ELSE ResultFindings(Head(results)) \o BatchFindings(Tail(results))

\* entry of checkPublicRegistry(dependencies, concurrency), up to the loop
CheckerEnter(dependencies, concurrency) ==
    /\ ckArgs' = [dependencies |-> dependencies, concurrency |-> concurrency]
    /\ ckScoped' = SelectSeq(dependencies, LAMBDA dep : dep.isScoped)
    /\ ckI' = 0
    /\ ckFindings' = <<>>
    /\ ckBatch' = <<>>
    /\ ckPc' = "loop"
    /\ probeLog' = [k \in 1..Len(SelectSeq(dependencies, LAMBDA dep : dep.isScoped)) |-> 0]
    /\ batchLog' = <<>>
    /\ outcomeLog' = [k \in 1..Len(SelectSeq(dependencies, LAMBDA dep : dep.isScoped)) |-> <<>>]

\* batchLog records the first MaxLogged batches of a call
MaxLogged == 6

\* the slice of one iteration, one element too long
BatchOf_OneTooMany(scoped, i, concurrency) == Slice(scoped, i, i + concurrency + 1)

\* the slice of one iteration
BatchOf(scoped, i, concurrency) == Slice(scoped, i, i + concurrency)

\* one iteration of the loop up to the await: the batch is sliced and every probe
\* of it is started (each async callback runs synchronously up to its fetch)
StartBatch ==
    /\ ckPc = "loop"
    /\ ckI < Len(ckScoped)
    /\ LET batch == BatchOf(ckScoped, ckI, ckArgs.concurrency)
       IN /\ ckBatch' = [j \in 1..Len(batch) |->
                            [dep |-> batch[j], index |-> ckI + j,
                             state |-> "pending", checkResult |-> "none"]]
          /\ probeLog' = [k \in DOMAIN probeLog |->
                            IF k > ckI /\ k <= ckI + Len(batch) THEN probeLog[k] + 1
                            ELSE probeLog[k]]
          /\ batchLog' = IF Len(batchLog) < MaxLogged
                          THEN Append(batchLog, Len(batch)) ELSE batchLog
    /\ ckPc' = "await"
    /\ UNCHANGED <<ckArgs, ckScoped, ckI, ckFindings, outcomeLog>>
    /\ UNCHANGED <<ws, pc, packageJson, lockfile, registryConfig, config, context,
                   ruleFindings, stages, result, net, fs>>

\* a promise that resolves at the first settled member
AllSettled_FirstSettled(results) ==
    \E j \in 1..Len(results) : results[j].state # "pending"

\* Promise.allSettled resolves once no member is pending
AllSettled(results) ==
    \A j \in 1..Len(results) : results[j].state # "pending"

\* one probe of the batch settles: packageExistsOnPublicNpm never rejects
ProbeSettle ==
    /\ ckPc = "await"
    /\ \E j \in 1..Len(ckBatch) :
        /\ ckBatch[j].state = "pending"
        /\ \E response \in net[ckBatch[j].index] :
            /\ ckBatch' = [ckBatch EXCEPT ![j].state = "fulfilled",
                                          ![j].checkResult = packageExistsOnPublicNpm(response)]
            /\ outcomeLog' = [outcomeLog EXCEPT ![ckBatch[j].index] = Append(@, response)]
    /\ UNCHANGED <<ckArgs, ckPc, ckScoped, ckI, ckFindings, probeLog, batchLog>>
    /\ UNCHANGED <<ws, pc, packageJson, lockfile, registryConfig, config, context,
                   ruleFindings, stages, result, net, fs>>

\* Promise.allSettled resolves: the results are turned into findings, i advances
BatchSettled ==
    /\ ckPc = "await"
    /\ AllSettled(ckBatch)
    /\ ckFindings' = ckFindings \o BatchFindings(ckBatch)
    /\ ckI' = ckI + ckArgs.concurrency
    /\ ckBatch' = <<>>
    /\ ckPc' = "loop"
    /\ UNCHANGED <<ckArgs, ckScoped, probeLog, batchLog, outcomeLog>>
    /\ UNCHANGED <<ws, pc, packageJson, lockfile, registryConfig, config, context,
                   ruleFindings, stages, result, net, fs>>

\* the loop condition fails: return findings
CheckerReturn ==
    /\ ckPc = "loop"
    /\ ckI >= Len(ckScoped)
    /\ ckPc' = "returned"
    /\ UNCHANGED <<ckArgs, ckScoped, ckI, ckBatch, ckFindings, probeLog, batchLog,
                   outcomeLog>>
    /\ UNCHANGED <<ws, pc, packageJson, lockfile, registryConfig, config, context,
                   ruleFindings, stages, result, net, fs>>

-----------------------------------------------------------------------------
(* Text of files.  A file's content is a sequence of lines and a line is a  *)
(* sequence of tokens: " " for a blank, single characters for punctuation   *)
(* and for the characters of names and versions, and one token for each     *)
(* keyword and for each opaque part of a URL or of a hash.                  *)

Space == " "

\* the first position >= i of s that holds a token of set, Len(s) + 1 when none
FirstIn(s, i, set) ==
    IF \E j \in i..Len(s) : s[j] \in set
    THEN CHOOSE j \in i..Len(s) : s[j] \in set /\ \A h \in i..(j - 1) : s[h] \notin set
    ELSE Len(s) + 1

\* the first position >= i of s that holds a token outside set, Len(s) + 1 when none
FirstNotIn(s, i, set) ==
    IF \E j \in i..Len(s) : s[j] \notin set
    THEN CHOOSE j \in i..Len(s) : s[j] \notin set /\ \A h \in i..(j - 1) : s[h] \in set
    ELSE Len(s) + 1

TokenAt(s, i) == IF i >= 1 /\ i <= Len(s) THEN s[i] ELSE "<end>"

\* String.prototype.trim
Trim(line) ==
    LET first == FirstNotIn(line, 1, {Space})
    IN IF first > Len(line) THEN <<>>
       ELSE SubSeq(line, first,
                   CHOOSE e \in first..Len(line) :
                       line[e] # Space /\ \A h \in (e + 1)..Len(line) : line[h] = Space)

\* /^\S/.test(line)
StartsUnindented(line) == Len(line) > 0 /\ line[1] # Space

-----------------------------------------------------------------------------
(* parser/lockfile-parser.ts                                               *)

\* the LockfileEntry literal
Entry(name, version, resolved, integrity, hasInstallScripts) ==
    [name |-> name, version |-> version, resolved |-> resolved,
     integrity |-> integrity, hasInstallScripts |-> hasInstallScripts]

\* key.replace(/^node_modules\//, '')
StripNodeModules(key) ==
    IF Len(key) > 0 /\ key[1] = "node_modules/" THEN Tail(key) ELSE key

\* the entry literal built from one value of the packages or dependencies map
NpmEntry(name, value) ==
    Entry(name,
          IF IsSome(value.version) THEN value.version[1] ELSE <<>>,
          value.resolved,
          value.integrity,
          IF value.hasInstallScripts = Some(TRUE) THEN Some(TRUE) ELSE None)

RECURSIVE NpmPackagesLoop(_, _)
\* `for (const [key, value] of Object.entries(pkgs))`
NpmPackagesLoop(pkgs, packages) ==
    IF pkgs = <<>> THEN packages
    ELSE LET key == Head(pkgs).key
             name == StripNodeModules(key)
         IN IF key = <<>> THEN NpmPackagesLoop(Tail(pkgs), packages)
            ELSE NpmPackagesLoop(Tail(pkgs),
                                 MapSet(packages, name, NpmEntry(name, Head(pkgs).value)))

RECURSIVE NpmDependenciesLoop(_, _)
\* `for (const [name, value] of Object.entries(deps))`
NpmDependenciesLoop(deps, packages) ==
    IF deps = <<>> THEN packages
    ELSE NpmDependenciesLoop(Tail(deps),
                             MapSet(packages, Head(deps).key,
                                    NpmEntry(Head(deps).key, Head(deps).value)))

\* parseNpmLockfile after JSON.parse: raw is the parsed object, its maps in key
\* order; the dependencies map of lockfileVersion 1 is read when the packages
\* map left the table empty
parseNpmLockfile(raw) ==
    LET pkgs == IF IsSome(raw.packages) THEN raw.packages[1] ELSE <<>>
        deps == IF IsSome(raw.dependencies) THEN raw.dependencies[1] ELSE <<>>
        packages == NpmPackagesLoop(pkgs, <<>>)
    IN [type |-> "npm",
        packages |-> IF Len(packages) = 0 THEN NpmDependenciesLoop(deps, packages)
                     ELSE packages]

RECURSIVE SplitBlocks(_)
\* content.split(/\n(?=\S)/) followed by block.split('\n'): a block runs from a
\* line up to the next line that starts with a non-blank character
SplitBlocks(lines) ==
    IF lines = <<>> THEN <<>>
    ELSE LET rest == SplitBlocks(SubSeq(lines, 1, Len(lines) - 1))
             last == lines[Len(lines)]
         IN IF Len(lines) = 1 \/ StartsUnindented(last)
            THEN Append(rest, <<last>>)
            ELSE [rest EXCEPT ![Len(rest)] = Append(@, last)]

\* /^"?(@?[^@"]+)@/.exec(header): the captured name, as an optional
YarnHeaderName(header) ==
    LET start == IF TokenAt(header, 1) = "\"" THEN 2 ELSE 1
        body == IF TokenAt(header, start) = "@" THEN start + 1 ELSE start
        stop == FirstIn(header, body, {"@", "\""})
    IN IF stop > body /\ TokenAt(header, stop) = "@"
       THEN Some(SubSeq(header, start, stop - 1))
       ELSE None

\* /^key\s+"([^"]+)"/.exec(trimmed): the captured text, as an optional
QuotedField(trimmed, key) ==
    LET open == FirstNotIn(trimmed, 2, {Space})
        close == FirstIn(trimmed, open + 1, {"\""})
    IN IF /\ TokenAt(trimmed, 1) = key
          /\ open > 2
          /\ TokenAt(trimmed, open) = "\""
          /\ close > open + 1
          /\ close <= Len(trimmed)
       THEN Some(SubSeq(trimmed, open + 1, close - 1))
       ELSE None

\* /^integrity\s+(\S+)/.exec(trimmed): the captured text, as an optional
YarnIntegrity(trimmed) ==
    LET from == FirstNotIn(trimmed, 2, {Space})
        stop == FirstIn(trimmed, from, {Space})
    IN IF TokenAt(trimmed, 1) = "integrity" /\ from > 2 /\ stop > from
       THEN Some(SubSeq(trimmed, from, stop - 1))
       ELSE None

RECURSIVE YarnBlockFields(_, _)
\* `for (const line of lines.slice(1))`: acc is [version, resolved, integrity]
YarnBlockFields(lines, acc) ==
    IF lines = <<>> THEN acc
    ELSE LET trimmed == Trim(Head(lines))
             v == QuotedField(trimmed, "version")
             r == QuotedField(trimmed, "resolved")
             g == YarnIntegrity(trimmed)
         IN YarnBlockFields(Tail(lines),
               [version |-> IF IsSome(v) THEN v[1] ELSE acc.version,
                resolved |-> IF IsSome(r) THEN r ELSE acc.resolved,
                integrity |-> IF IsSome(g) THEN g ELSE acc.integrity])

RECURSIVE YarnBlocksLoop(_, _)
\* `for (const block of blocks)`, each kept block ending in packages.set(name, ...)
YarnBlocksLoop(blocks, packages) ==
    IF blocks = <<>> THEN packages
    ELSE LET lines == Head(blocks)
             header == Trim(lines[1])
             name == YarnHeaderName(header)
             fields == YarnBlockFields(Tail(lines),
                          [version |-> <<>>, resolved |-> None, integrity |-> None])
         IN IF header = <<>> \/ header[1] = "#" \/ ~IsSome(name)
            THEN YarnBlocksLoop(Tail(blocks), packages)
            ELSE YarnBlocksLoop(Tail(blocks),
                    MapSet(packages, name[1],
                           Entry(name[1], fields.version, fields.resolved,
                                 fields.integrity, None)))

\* parseYarnLockfile: content is the file's lines
parseYarnLockfile(content) ==
    [type |-> "yarn",
     packages |-> YarnBlocksLoop(SplitBlocks(IF content = <<>> THEN <<<<>>>> ELSE content), <<>>)]

-----------------------------------------------------------------------------
\* ([\d][^:']*)'?: of the three key patterns, tried at position v: the captured
\* version, as an optional
PnpmVersionAt(trimmed, v) ==
    LET stop == FirstIn(trimmed, v + 1, {":", "'"})
        colon == IF TokenAt(trimmed, stop) = "'" THEN stop + 1 ELSE stop
    IN IF TokenAt(trimmed, v) \in Digits /\ TokenAt(trimmed, colon) = ":"
       THEN Some(SubSeq(trimmed, v, stop - 1))
       ELSE None

\* the position after '? and, when slash, after \/?
PnpmKeyStart(trimmed, slash) ==
    LET q == IF TokenAt(trimmed, 1) = "'" THEN 2 ELSE 1
    IN IF slash /\ TokenAt(trimmed, q) = "/" THEN q + 1 ELSE q

\* trimmed.match(/^'?\/?(@[^/]+\/[^/]+)\/([\d][^:']*)'?:/)
PnpmV5Scoped(trimmed) ==
    LET at == PnpmKeyStart(trimmed, TRUE)
        s1 == FirstIn(trimmed, at + 1, {"/"})
        s2 == FirstIn(trimmed, s1 + 1, {"/"})
        version == PnpmVersionAt(trimmed, s2 + 1)
    IN IF /\ TokenAt(trimmed, at) = "@"
          /\ s1 > at + 1 /\ s1 <= Len(trimmed)
          /\ s2 > s1 + 1 /\ s2 <= Len(trimmed)
          /\ IsSome(version)
       THEN Some([name |-> SubSeq(trimmed, at, s2 - 1), version |-> version[1]])
       ELSE None

\* trimmed.match(/^'?\/([^@/][^/]*)\/([\d][^:']*)'?:/)
PnpmV5Unscoped(trimmed) ==
    LET slash == IF TokenAt(trimmed, 1) = "'" THEN 2 ELSE 1
        first == slash + 1
        s == FirstIn(trimmed, first + 1, {"/"})
        version == PnpmVersionAt(trimmed, s + 1)
    IN IF /\ TokenAt(trimmed, slash) = "/"
          /\ first <= Len(trimmed) /\ trimmed[first] \notin {"@", "/"}
          /\ s <= Len(trimmed)
          /\ IsSome(version)
       THEN Some([name |-> SubSeq(trimmed, first, s - 1), version |-> version[1]])
       ELSE None

\* trimmed.match(/^'?\/?(@[^@]+|[^@/'\s][^@]*?)@([\d][^:']*)'?:/)
PnpmV6(trimmed) ==
    LET first == PnpmKeyStart(trimmed, TRUE)
        at == FirstIn(trimmed, first + 1, {"@"})
        version == PnpmVersionAt(trimmed, at + 1)
    IN IF /\ first <= Len(trimmed)
          /\ trimmed[first] \notin {"/", "'", Space}
          /\ trimmed[first] = "@" => at > first + 1
          /\ at <= Len(trimmed)
          /\ IsSome(version)
       THEN Some([name |-> SubSeq(trimmed, first, at - 1), version |-> version[1]])
       ELSE None

\* v5Scoped ?? v5Unscoped ?? v6Match
PnpmKeyMatch(trimmed) ==
    IF IsSome(PnpmV5Scoped(trimmed)) THEN PnpmV5Scoped(trimmed)
    ELSE IF IsSome(PnpmV5Unscoped(trimmed)) THEN PnpmV5Unscoped(trimmed)
    ELSE PnpmV6(trimmed)

ShaTokens == {"sha512-", "sha1-", "sha256-"}

\* /integrity:\s*['"]?(sha[^}'"\s]+)['"]?/ tried at the keyword at position i
PnpmIntegrityAt(trimmed, i) ==
    LET j == FirstNotIn(trimmed, i + 1, {Space})
        k == IF TokenAt(trimmed, j) \in {"'", "\""} THEN j + 1 ELSE j
        stop == FirstIn(trimmed, k + 1, {"}", "'", "\"", Space})
    IN IF TokenAt(trimmed, i) = "integrity:" /\ TokenAt(trimmed, k) \in ShaTokens
       THEN Some(SubSeq(trimmed, k, stop - 1))
       ELSE None

\* trimmed.match(/integrity:\s*['"]?(sha[^}'"\s]+)['"]?/): the leftmost match
PnpmIntegrity(trimmed) ==
    IF \E i \in 1..Len(trimmed) : IsSome(PnpmIntegrityAt(trimmed, i))
    THEN PnpmIntegrityAt(trimmed,
            CHOOSE i \in 1..Len(trimmed) :
                /\ IsSome(PnpmIntegrityAt(trimmed, i))
                /\ \A h \in 1..(i - 1) : ~IsSome(PnpmIntegrityAt(trimmed, h)))
    ELSE None

\* the pending entry stored whatever the table holds for its name
PnpmFlush_Overwrites(st) ==
    IF Truthy(st.currentName) /\ Truthy(st.currentVersion)
    THEN MapSet(st.packages, st.currentName[1],
                Entry(st.currentName[1], st.currentVersion[1], None,
                      st.currentIntegrity, None))
    ELSE st.packages

\* `if (currentName && currentVersion && !packages.has(currentName)) packages.set(...)`
PnpmFlush(st) ==
    IF /\ Truthy(st.currentName)
       /\ Truthy(st.currentVersion)
       /\ ~MapHas(st.packages, st.currentName[1])
    THEN MapSet(st.packages, st.currentName[1],
                Entry(st.currentName[1], st.currentVersion[1], None,
                      st.currentIntegrity, None))
    ELSE st.packages

\* one iteration of `for (const line of lines)` of parsePnpmLockfile
PnpmLine(st, line) ==
    LET trimmed == Trim(line)
        match == PnpmKeyMatch(trimmed)
        integrityMatch == PnpmIntegrity(trimmed)
    IN IF TokenAt(trimmed, 1) = "packages:"
       THEN [st EXCEPT !.inPackagesSection = TRUE]
       ELSE IF /\ st.inPackagesSection
               /\ StartsUnindented(line)
               /\ Len(trimmed) > 0
               /\ trimmed[1] \notin {"/", "@", "'"}
       THEN [inPackagesSection |-> FALSE, currentName |-> None, currentVersion |-> None,
             currentIntegrity |-> None, packages |-> PnpmFlush(st)]
       ELSE IF ~st.inPackagesSection THEN st
       ELSE IF IsSome(match)
       THEN [inPackagesSection |-> TRUE,
             currentName |-> Some(match[1].name),
             currentVersion |-> Some(match[1].version),
             currentIntegrity |-> None,
             packages |-> PnpmFlush(st)]
       ELSE IF Truthy(st.currentName) /\ IsSome(integrityMatch)
       THEN [st EXCEPT !.currentIntegrity = integrityMatch]
       ELSE st

RECURSIVE PnpmLinesLoop(_, _)
PnpmLinesLoop(lines, st) ==
    IF lines = <<>> THEN st ELSE PnpmLinesLoop(Tail(lines), PnpmLine(st, Head(lines)))

\* parsePnpmLockfile: content is the file's lines
parsePnpmLockfile(content) ==
    [type |-> "pnpm",
     packages |-> PnpmFlush(PnpmLinesLoop(content,
                     [inPackagesSection |-> FALSE, currentName |-> None,
                      currentVersion |-> None, currentIntegrity |-> None,
                      packages |-> <<>>]))]

\* what a call returns: a value, or nothing because it threw
Returned(value) == [threw |-> FALSE, value |-> value]

Thrown == [threw |-> TRUE, value |-> None]

\* the classic-text lockfile looked for first
parseLockfile_YarnFirst(dir) ==
    IF IsSome(dir.yarnLock) THEN Returned(Some(parseYarnLockfile(dir.yarnLock[1])))
    ELSE IF IsSome(dir.npmLock)
    THEN (IF dir.npmLock[1].wellFormed
          THEN Returned(Some(parseNpmLockfile(dir.npmLock[1].json)))
          ELSE Thrown)
    ELSE IF IsSome(dir.pnpmLock) THEN Returned(Some(parsePnpmLockfile(dir.pnpmLock[1])))
    ELSE Returned(None)

\* parseLockfile(rootDir): dir gives, for each file name, its content when
\* existsSync holds; JSON.parse throws on content that is not well-formed
parseLockfile(dir) ==
    IF IsSome(dir.npmLock)
    THEN (IF dir.npmLock[1].wellFormed
          THEN Returned(Some(parseNpmLockfile(dir.npmLock[1].json)))
          ELSE Thrown)
    ELSE IF IsSome(dir.yarnLock) THEN Returned(Some(parseYarnLockfile(dir.yarnLock[1])))
    ELSE IF IsSome(dir.pnpmLock) THEN Returned(Some(parsePnpmLockfile(dir.pnpmLock[1])))
    ELSE Returned(None)

-----------------------------------------------------------------------------
(* parser/registry-config-parser.ts                                        *)

\* /^registry\s*=\s*(.+)/.exec(trimmed): the captured text, as an optional
NpmrcRegistryMatch(trimmed) ==
    LET eq == FirstNotIn(trimmed, 2, {Space})
        v == FirstNotIn(trimmed, eq + 1, {Space})
    IN IF TokenAt(trimmed, 1) = "registry" /\ TokenAt(trimmed, eq) = "=" /\ v <= Len(trimmed)
       THEN Some(SubSeq(trimmed, v, Len(trimmed)))
       ELSE None

\* /^(@[^:]+):registry\s*=\s*(.+)/.exec(trimmed): the two captures, as an optional
NpmrcScopeMatch(trimmed) ==
    LET colon == FirstIn(trimmed, 2, {":"})
        eq == FirstNotIn(trimmed, colon + 2, {Space})
        v == FirstNotIn(trimmed, eq + 1, {Space})
    IN IF /\ TokenAt(trimmed, 1) = "@"
          /\ colon > 2
          /\ TokenAt(trimmed, colon + 1) = "registry"
          /\ TokenAt(trimmed, eq) = "="
          /\ v <= Len(trimmed)
       THEN Some([scope |-> SubSeq(trimmed, 1, colon - 1),
                  registry |-> SubSeq(trimmed, v, Len(trimmed))])
       ELSE None

RECURSIVE NpmrcLinesLoop(_, _)
\* `for (const line of lines)` of parseNpmrcContent
NpmrcLinesLoop(lines, acc) ==
    IF lines = <<>> THEN acc
    ELSE LET trimmed == Trim(Head(lines))
             registryMatch == NpmrcRegistryMatch(trimmed)
             scopeMatch == NpmrcScopeMatch(trimmed)
         IN NpmrcLinesLoop(Tail(lines),
               IF trimmed = <<>> \/ trimmed[1] \in {"#", ";"} THEN acc
               ELSE IF IsSome(registryMatch)
               THEN [acc EXCEPT !.defaultRegistry = Some(Trim(registryMatch[1]))]
               ELSE IF IsSome(scopeMatch)
               THEN [acc EXCEPT !.scopeRegistries =
                        MapSet(@, scopeMatch[1].scope, Trim(scopeMatch[1].registry))]
               ELSE acc)

parseNpmrcContent(content) ==
    NpmrcLinesLoop(content,
                   [defaultRegistry |-> None, scopeRegistries |-> <<>>, hasConfig |-> TRUE])

parseNpmrc(dir) ==
    IF ~IsSome(dir.npmrc)
    THEN [defaultRegistry |-> None, scopeRegistries |-> <<>>, hasConfig |-> FALSE]
    ELSE parseNpmrcContent(dir.npmrc[1])

\* npmRegistryServer:\s*"?([^"\n]+)"? tried at the keyword at position i of s: the
\* captured text after trim(), as an optional.  When nothing but a quote, a line
\* end or the end of s follows the blanks, the pattern backs off and captures a
\* blank that precedes it.
RegistryServerAt(s, i) ==
    LET j == FirstNotIn(s, i + 1, {Space, "\n"})
        ValueEnd(k) == FirstIn(s, k, {"\"", "\n"})
    IN IF TokenAt(s, i) # "npmRegistryServer:" THEN None
       ELSE IF j <= Len(s) /\ s[j] # "\""
       THEN Some(Trim(SubSeq(s, j, ValueEnd(j) - 1)))
       ELSE IF j <= Len(s) /\ ValueEnd(j + 1) > j + 1
       THEN Some(Trim(SubSeq(s, j + 1, ValueEnd(j + 1) - 1)))
       ELSE IF \E p \in (i + 1)..(j - 1) : s[p] = Space
       THEN Some(<<>>)
       ELSE None

\* /npmRegistryServer:\s*"?([^"\n]+)"?/m.exec(content): the leftmost match in the
\* whole content
YarnrcMainRegistry(content) ==
    LET s == Join(content, <<"\n">>)
    IN IF \E i \in 1..Len(s) : IsSome(RegistryServerAt(s, i))
       THEN RegistryServerAt(s,
               CHOOSE i \in 1..Len(s) :
                   /\ IsSome(RegistryServerAt(s, i))
                   /\ \A h \in 1..(i - 1) : ~IsSome(RegistryServerAt(s, h)))
       ELSE None

\* /^npmScopes:\s*$/m: a line made of the keyword and blanks
IsScopesLine(line) ==
    /\ TokenAt(line, 1) = "npmScopes:"
    /\ \A h \in 2..Len(line) : line[h] = Space

\* line.match(/^\s{2}["']?(@[^"'\s:]+)["']?\s*:/): the captured scope, as an optional
YarnrcScopeMatch(line) ==
    LET at == IF TokenAt(line, 3) \in {"\"", "'"} THEN 4 ELSE 3
        stop == FirstIn(line, at + 1, {"\"", "'", Space, ":"})
        after == IF TokenAt(line, stop) \in {"\"", "'"} THEN stop + 1 ELSE stop
        colon == FirstNotIn(line, after, {Space})
    IN IF /\ TokenAt(line, 1) = Space
          /\ TokenAt(line, 2) = Space
          /\ TokenAt(line, at) = "@"
          /\ stop > at + 1
          /\ TokenAt(line, colon) = ":"
       THEN Some(SubSeq(line, at, stop - 1))
       ELSE None

\* line.match(/^\s{4,}npmRegistryServer:\s*"?([^"\n]+)"?/): the captured text
\* after trim(), as an optional
YarnrcScopedServer(line) ==
    LET kw == FirstNotIn(line, 1, {Space})
    IN IF kw >= 5 THEN RegistryServerAt(line, kw) ELSE None

RECURSIVE YarnrcScopesLoop(_, _)
\* `for (const line of lines)` over the text after the npmScopes line
YarnrcScopesLoop(lines, acc) ==
    IF lines = <<>> THEN acc.scopeRegistries
    ELSE LET line == Head(lines)
             scopeMatch == YarnrcScopeMatch(line)
             regMatch == YarnrcScopedServer(line)
         IN IF StartsUnindented(line) /\ Trim(line) # <<>> THEN acc.scopeRegistries
            ELSE YarnrcScopesLoop(Tail(lines),
                    IF IsSome(scopeMatch) THEN [acc EXCEPT !.currentScope = scopeMatch]
                    ELSE IF Truthy(acc.currentScope) /\ IsSome(regMatch)
                    THEN [acc EXCEPT !.scopeRegistries =
                             MapSet(@, acc.currentScope[1], regMatch[1])]
                    ELSE acc)

parseYarnrcContent(content) ==
    LET scopesAt == IF \E l \in 1..Len(content) : IsScopesLine(content[l])
                    THEN CHOOSE l \in 1..Len(content) :
                            /\ IsScopesLine(content[l])
                            /\ \A h \in 1..(l - 1) : ~IsScopesLine(content[h])
                    ELSE 0
    IN [defaultRegistry |-> YarnrcMainRegistry(content),
        scopeRegistries |->
            IF scopesAt = 0 THEN <<>>
            ELSE YarnrcScopesLoop(SubSeq(content, scopesAt + 1, Len(content)),
                                  [currentScope |-> None, scopeRegistries |-> <<>>]),
        hasConfig |-> TRUE]

parseYarnrc(dir) ==
    IF ~IsSome(dir.yarnrc)
    THEN [defaultRegistry |-> None, scopeRegistries |-> <<>>, hasConfig |-> FALSE]
    ELSE parseYarnrcContent(dir.yarnrc[1])

RECURSIVE SetAll(_, _)
\* `for (const [scope, registry] of from) scopeRegistries.set(scope, registry)`
SetAll(scopeRegistries, from) ==
    IF from = <<>> THEN scopeRegistries
    ELSE SetAll(MapSet(scopeRegistries, Head(from).key, Head(from).value), Tail(from))

\* the two overlays in the other order, and the default taken from .yarnrc.yml first
parseRegistryConfig_YarnrcWins(dir) ==
    LET npmrcConfig == parseNpmrc(dir)
        yarnrcConfig == parseYarnrc(dir)
    IN [defaultRegistry |-> IF IsSome(yarnrcConfig.defaultRegistry)
                            THEN yarnrcConfig.defaultRegistry
                            ELSE npmrcConfig.defaultRegistry,
        scopeRegistries |-> SetAll(SetAll(<<>>, npmrcConfig.scopeRegistries),
                                   yarnrcConfig.scopeRegistries),
        hasConfig |-> npmrcConfig.hasConfig \/ yarnrcConfig.hasConfig]

\* hasConfig taken from what the files define
parseRegistryConfig_ConfigIfDefined(dir) ==
    LET npmrcConfig == parseNpmrc(dir)
        yarnrcConfig == parseYarnrc(dir)
        merged == SetAll(SetAll(<<>>, yarnrcConfig.scopeRegistries),
                         npmrcConfig.scopeRegistries)
    IN [defaultRegistry |-> IF IsSome(npmrcConfig.defaultRegistry)
                            THEN npmrcConfig.defaultRegistry
                            ELSE yarnrcConfig.defaultRegistry,
        scopeRegistries |-> merged,
        hasConfig |-> \/ Len(merged) > 0
                      \/ IsSome(npmrcConfig.defaultRegistry)
                      \/ IsSome(yarnrcConfig.defaultRegistry)]

parseRegistryConfig(dir) ==
    LET npmrcConfig == parseNpmrc(dir)
        yarnrcConfig == parseYarnrc(dir)
    IN [defaultRegistry |-> IF IsSome(npmrcConfig.defaultRegistry)
                            THEN npmrcConfig.defaultRegistry
                            ELSE yarnrcConfig.defaultRegistry,
        scopeRegistries |-> SetAll(SetAll(<<>>, yarnrcConfig.scopeRegistries),
                                   npmrcConfig.scopeRegistries),
        hasConfig |-> npmrcConfig.hasConfig \/ yarnrcConfig.hasConfig]

-----------------------------------------------------------------------------
(* Inputs: the parsed project files, the options and the network           *)

MaxDeps == 2

MaxDevDeps == 1

MaxScripts == 1

MaxScoped == 3

MaxConcurrency == 3

NameAcmeLib == <<"@", "a", "c", "m", "e", "/", "l", "i", "b">>

NameAcmeUi == <<"@", "a", "c", "m", "e", "/", "u", "i">>

NameOrgCli == <<"@", "o", "/", "c">>

NameLodash == <<"l", "o", "d", "a", "s", "h">>

ProjectName == <<"@", "o", "/", "a", "p", "p">>

ScopeAcme == <<"@", "a", "c", "m", "e">>

ScopeOrg == <<"@", "o">>

VersionCaret == <<"^", "1", ".", "0", ".", "0">>

VersionExact == <<"1", ".", "2", ".", "3">>

PublicUrl == <<"https://", "registry.npmjs.org", "/">>

PrivateUrl == <<"https://", "npm.corp.example", "/">>

Sha == <<"sha512-", "abc">>

RECURSIVE PickFrom(_, _, _)
\* the entries of pool whose index is in S, in pool order
PickFrom(pool, S, i) ==
    IF i > Len(pool) THEN <<>>
    ELSE (IF i \in S THEN <<pool[i]>> ELSE <<>>) \o PickFrom(pool, S, i + 1)

SubRecords(pool, max) ==
    {PickFrom(pool, S, 1) : S \in {T \in SUBSET (1..Len(pool)) : Cardinality(T) <= max}}

DepPool ==
    <<[key |-> NameAcmeLib, value |-> VersionCaret],
      [key |-> NameOrgCli, value |-> VersionExact],
      [key |-> NameLodash, value |-> VersionCaret]>>

DevPool == <<[key |-> NameAcmeUi, value |-> VersionExact]>>

ScriptNames == {"preinstall", "install", "postinstall"}

PackageJsons ==
    {[name |-> n,
      dependencies |-> d,
      devDependencies |-> dd,
      hasPreinstall |-> "preinstall" \in sc,
      hasPostinstall |-> "postinstall" \in sc,
      hasInstall |-> "install" \in sc] :
        n \in {None, Some(ProjectName)},
        d \in SubRecords(DepPool, MaxDeps),
        dd \in SubRecords(DevPool, MaxDevDeps),
        sc \in {T \in SUBSET ScriptNames : Cardinality(T) <= MaxScripts}}

\* lockfile entries as npm would have written them for a project
EntryPrivate(name) ==
    [name |-> name, version |-> VersionExact, resolved |-> Some(PrivateUrl),
     integrity |-> Some(Sha), hasInstallScripts |-> None]

EntryPublic(name) ==
    [name |-> name, version |-> VersionExact, resolved |-> Some(PublicUrl),
     integrity |-> None, hasInstallScripts |-> Some(TRUE)]

ManifestNames(pj) ==
    Dedup([i \in 1..Len(pj.dependencies) |-> pj.dependencies[i].key]
          \o [i \in 1..Len(pj.devDependencies) |-> pj.devDependencies[i].key])

\* a lockfile with one entry per manifest name not in `missing`; the names in
\* `public` resolve from the public registry
LockTable(pj, public, missing) ==
    LET names == SelectSeq(ManifestNames(pj), LAMBDA n : n \notin missing)
    IN [i \in 1..Len(names) |->
          [key |-> names[i],
           value |-> IF names[i] \in public THEN EntryPublic(names[i])
                     ELSE EntryPrivate(names[i])]]

Lockfiles(pj) ==
    {None} \cup
    {Some([type |-> "npm", packages |-> LockTable(pj, shape.public, shape.missing)]) :
        shape \in {[public |-> {}, missing |-> {}],
                   [public |-> {NameAcmeLib}, missing |-> {NameOrgCli}],
                   [public |-> {NameAcmeLib, NameAcmeUi, NameOrgCli, NameLodash},
                    missing |-> {}]}}

\* no scanWorkspace call is running
NoWorkspaceScan == [pc |-> "none"]

NoConfig == [defaultRegistry |-> None, scopeRegistries |-> <<>>, hasConfig |-> FALSE]

\* a root directory with none of the files the parsers look for
NoFiles == [npmLock |-> None, yarnLock |-> None, pnpmLock |-> None,
            npmrc |-> None, yarnrc |-> None]

RegistryConfigs ==
    {NoConfig} \cup
    {[defaultRegistry |-> d, scopeRegistries |-> sr, hasConfig |-> TRUE] :
        d \in {None, Some(PrivateUrl)},
        sr \in {<<>>,
                <<[key |-> ScopeAcme, value |-> PrivateUrl],
                  [key |-> ScopeOrg, value |-> PublicUrl]>>}}

OfflineOverrides == {None, Some(TRUE), Some(FALSE)}

ThresholdOverrides == {None} \cup {Some(sev) : sev \in Severities}

ScopesOverrides == {None, Some(<<>>), Some(<<ScopeAcme>>)}

IgnoreOverrides == {None, Some(<<NameAcmeLib, ProjectName>>)}

Ok200 == [threw |-> FALSE, status |-> 200]

NotFound404 == [threw |-> FALSE, status |-> 404]

Threw == [threw |-> TRUE, status |-> 0]

\* network conditions of a scan of n scoped dependencies
ScanNets(n) ==
    {[k \in 1..n |-> {NotFound404}],
     [k \in 1..n |-> IF k % 2 = 1 THEN {Ok200} ELSE {Threw}]}

-----------------------------------------------------------------------------
(* Inputs of the parsers: the files of a project root                      *)

MaxBlocks == 3

MaxKeys == 3

Version100 == <<"1", ".", "0", ".", "0">>

Sha1 == <<"sha1-", "x">>

Indent(n) == [i \in 1..n |-> Space]

\* the sequences over 1..n of length at most k
SeqsUpTo(n, k) == UNION {[1..m -> 1..n] : m \in 0..k}

RECURSIVE RenderBlocks(_, _)
\* the lines of the blocks of pool chosen by seq, one block after the other
RenderBlocks(pool, seq) ==
    IF seq = <<>> THEN <<>>
    ELSE pool[Head(seq)].lines \o RenderBlocks(pool, Tail(seq))

\* a block of yarn.lock as yarn writes it: the header quoted for a scoped name
YarnBlock(name, range, version, resolved, integrity) ==
  [entry |-> Some(Entry(name, version, resolved, integrity, None)),
   lines |->
    <<(IF name[1] = "@" THEN <<"\"">> \o name \o <<"@">> \o range \o <<"\"", ":">>
       ELSE name \o <<"@">> \o range \o <<":">>),
      Indent(2) \o <<"version", Space, "\"">> \o version \o <<"\"">>>>
    \o (IF IsSome(resolved)
        THEN <<Indent(2) \o <<"resolved", Space, "\"">> \o resolved[1] \o <<"\"">>>>
        ELSE <<>>)
    \o (IF IsSome(integrity)
        THEN <<Indent(2) \o <<"integrity", Space>> \o integrity[1]>>
        ELSE <<>>)
    \o << <<>> >>]

YarnBlockPool ==
    <<YarnBlock(NameAcmeLib, VersionCaret, Version100, Some(PrivateUrl), Some(Sha)),
      YarnBlock(NameAcmeLib, VersionExact, VersionExact, Some(PublicUrl), None),
      YarnBlock(NameLodash, VersionCaret, Version100, Some(PublicUrl), Some(Sha)),
      [lines |-> << <<"#", Space, "yarn lockfile v1">>, <<>> >>, entry |-> None]>>

YarnContent(seq) ==
    IF seq = <<>> THEN << <<>> >> ELSE RenderBlocks(YarnBlockPool, seq)

YarnLockfiles == {YarnContent(seq) : seq \in SeqsUpTo(Len(YarnBlockPool), MaxBlocks)}

\* a block of the packages section of pnpm-lock.yaml in one of the key forms
PnpmBlock(form, name, version, integrity) ==
  [entry |-> Some(Entry(name, version, None, integrity, None)),
   lines |->
    <<Indent(2) \o
        (CASE form = "v5" -> <<"/">> \o name \o <<"/">> \o version \o <<":">>
           [] form = "v6" -> <<"/">> \o name \o <<"@">> \o version \o <<":">>
           [] form = "v9" -> <<"'">> \o name \o <<"@">> \o version \o <<"'", ":">>)>>
    \o (IF IsSome(integrity)
        THEN <<Indent(4) \o <<"resolution:", Space, "{", "integrity:", Space>>
                 \o integrity[1] \o <<"}">>>>
        ELSE <<>>)
    \o <<Indent(4) \o <<"dev:", Space, "false">>, <<>>>>]

PnpmBlockPool ==
    <<PnpmBlock("v6", NameAcmeLib, Version100, Some(Sha)),
      PnpmBlock("v5", NameAcmeLib, VersionExact, Some(Sha1)),
      PnpmBlock("v9", NameLodash, Version100, None),
      PnpmBlock("v5", NameLodash, VersionExact, Some(Sha))>>

PnpmHead == << <<"lockfileVersion:", Space, "'", "6", ".", "0", "'">>, <<>>, <<"packages:">>, <<>> >>

\* what may follow the packages section: nothing, or a further top-level section
\* with a line of the shape of a package key
PnpmTails ==
    {<<>>,
     << <<"snapshots:">>, <<>>,
        Indent(2) \o <<"'">> \o NameOrgCli \o <<"@">> \o VersionExact \o <<"'", ":">> >>}

PnpmContent(seq, tail) == PnpmHead \o RenderBlocks(PnpmBlockPool, seq) \o tail

\* a file without a packages section of its own, in which a key of that name is
\* nested under another section and followed by a line of the shape of a package key
PnpmNestedPackages ==
    << <<"lockfileVersion:", Space, "'", "6", ".", "0", "'">>,
       <<"importers:">>,
       Indent(2) \o <<"packages:">> >>
    \o PnpmBlock("v5", NameLodash, VersionExact, Some(Sha)).lines

PnpmLockfiles ==
    {PnpmContent(seq, tail) : seq \in SeqsUpTo(Len(PnpmBlockPool), MaxBlocks), tail \in PnpmTails}
    \cup {PnpmNestedPackages}

\* a value of the packages or dependencies map of package-lock.json
NpmValue(version, resolved, integrity, scripts) ==
    [version |-> version, resolved |-> resolved, integrity |-> integrity,
     hasInstallScripts |-> scripts]

NpmKeyPool ==
    <<[key |-> <<>>, value |-> NpmValue(Some(Version100), None, None, None)],
      [key |-> <<"node_modules/">> \o NameAcmeLib,
       value |-> NpmValue(Some(VersionExact), Some(PrivateUrl), Some(Sha), None)],
      [key |-> <<"node_modules/">> \o NameOrgCli,
       value |-> NpmValue(Some(Version100), Some(PublicUrl), None, Some(TRUE))],
      [key |-> <<"node_modules/">> \o NameLodash,
       value |-> NpmValue(None, None, None, Some(FALSE))],
      [key |-> <<"node_modules/">> \o NameLodash \o <<"/", "node_modules/">> \o NameAcmeUi,
       value |-> NpmValue(Some(VersionExact), Some(PrivateUrl), Some(Sha), None)]>>

\* the dependencies map of a lockfileVersion 1 file
NpmLegacy ==
    <<[key |-> NameAcmeUi, value |-> NpmValue(Some(Version100), Some(PublicUrl), None, None)],
      [key |-> NameLodash, value |-> NpmValue(Some(VersionExact), None, None, None)]>>

\* the content of package-lock.json: text JSON.parse accepts, with the object it
\* gives, or text it rejects
JsonText(packages, dependencies) ==
    [wellFormed |-> TRUE, json |-> [packages |-> packages, dependencies |-> dependencies]]

MalformedJson == [wellFormed |-> FALSE, json |-> [packages |-> None, dependencies |-> None]]

NpmLockfiles ==
    {MalformedJson} \cup
    {JsonText(p, d) : p \in {None} \cup {Some(m) : m \in SubRecords(NpmKeyPool, MaxKeys)},
                      d \in {None, Some(NpmLegacy)}}

OtherUrl == <<"https://", "yarn.corp.example", "/">>

NpmrcScopeLine(scope, eq, url) == scope \o <<":", "registry">> \o eq \o url

\* .npmrc contents: an empty file, comments only, a default only, one scope
\* written with blanks around `=`, and a default with two scopes
NpmrcEmpty == << <<>> >>

NpmrcAcme == << Indent(1) \o NpmrcScopeLine(ScopeAcme, <<Space, "=", Space>>, PrivateUrl) \o Indent(1) >>

NpmrcFull ==
    << <<"registry", "=">> \o PublicUrl,
       NpmrcScopeLine(ScopeAcme, <<"=">>, PrivateUrl),
       NpmrcScopeLine(ScopeOrg, <<"=">>, PublicUrl) >>

NpmrcFiles ==
    {NpmrcEmpty,
     << <<"#", Space, "registry", "=">> \o PublicUrl,
        <<";", "registry", "=">> \o PrivateUrl,
        <<>> >>,
     << <<"registry", "=">> \o PrivateUrl, <<>> >>,
     NpmrcAcme,
     NpmrcFull}

YarnrcServerLine(n, url) == Indent(n) \o <<"npmRegistryServer:", Space, "\"">> \o url \o <<"\"">>

YarnrcScopeLine(scope) == Indent(2) \o <<"\"">> \o scope \o <<"\"", ":">>

\* .yarnrc.yml contents: an empty file, a default only, a default followed by two
\* scopes and a further setting, and scopes only
YarnrcFull ==
    << YarnrcServerLine(0, OtherUrl),
       <<"npmScopes:">>,
       YarnrcScopeLine(ScopeAcme),
       Indent(4) \o <<"npmAlwaysAuth:", Space, "true">>,
       YarnrcServerLine(4, OtherUrl),
       <<>>,
       Indent(2) \o <<"x">> \o <<":">>,
       Indent(2) \o <<"'">> \o <<"@", "y">> \o <<"'", Space, ":">>,
       YarnrcServerLine(6, PublicUrl),
       <<"enableTelemetry:", Space, "false">>,
       YarnrcScopeLine(ScopeOrg),
       YarnrcServerLine(4, OtherUrl) >>

YarnrcScopesOnly ==
    << <<"npmScopes:", Space>>,
       YarnrcScopeLine(ScopeOrg),
       YarnrcServerLine(4, OtherUrl) >>

YarnrcFiles ==
    {<< <<>> >>,
     << YarnrcServerLine(0, OtherUrl), <<>> >>,
     YarnrcFull,
     YarnrcScopesOnly}

Dir(npmLock, yarnLock, pnpmLock, npmrc, yarnrc) ==
    [npmLock |-> npmLock, yarnLock |-> yarnLock, pnpmLock |-> pnpmLock,
     npmrc |-> npmrc, yarnrc |-> yarnrc]

\* one lockfile of each dialect, each naming a package the others do not
NpmLockOfAcme == JsonText(Some(SubSeq(NpmKeyPool, 1, 2)), None)

YarnLockOfLodash == YarnContent(<<4, 3>>)

PnpmLockOfOrg == PnpmHead \o PnpmBlock("v6", NameOrgCli, VersionExact, None).lines

Optionally(S) == {None} \cup {Some(x) : x \in S}

\* the project roots explored: every combination of present lockfiles, every
\* generated lockfile of each dialect on its own, every pair of config files
ParseDirs ==
    {Dir(n, y, p, None, None) : n \in Optionally({NpmLockOfAcme, MalformedJson}),
                                y \in Optionally({YarnLockOfLodash}),
                                p \in Optionally({PnpmLockOfOrg})}
    \cup {Dir(Some(n), None, None, None, None) : n \in NpmLockfiles}
    \cup {Dir(None, Some(y), None, None, None) : y \in YarnLockfiles}
    \cup {Dir(None, None, Some(p), None, None) : p \in PnpmLockfiles}
    \cup {Dir(None, None, None, a, b) : a \in Optionally(NpmrcFiles), b \in Optionally(YarnrcFiles)}

-----------------------------------------------------------------------------
(* scanForConfusion and analyze                                            *)

Init ==
    /\ pc = "start"
    /\ packageJson \in PackageJsons
    /\ lockfile \in Lockfiles(packageJson)
    /\ registryConfig \in RegistryConfigs
    /\ config = [offline |-> TRUE]
    /\ context = BuildContext(packageJson, lockfile, registryConfig)
    /\ ruleFindings = <<>>
    /\ stages = [merged |-> <<>>, scoped |-> <<>>, ignored |-> <<>>, thresholded |-> <<>>]
    /\ result = [findings |-> <<>>, summary |-> buildSummary(<<>>)]
    /\ net = <<>>
    /\ ckArgs = [dependencies |-> <<>>, concurrency |-> DefaultConcurrency]
    /\ ckPc = "idle"
    /\ ckScoped = <<>>
    /\ ckI = 0
    /\ ckBatch = <<>>
    /\ ckFindings = <<>>
    /\ probeLog = <<>>
    /\ batchLog = <<>>
    /\ outcomeLog = <<>>
    /\ fs = NoFiles
    /\ ws = NoWorkspaceScan

\* the online check run whatever the mode
OnlineCheckRuns_Always(cfg) == TRUE

\* `if (!config.offline)` of analyze
OnlineCheckRuns(cfg) == ~cfg.offline

\* scanForConfusion: buildConfig, the context, then analyze up to its await:
\* the rules run, and unless offline checkPublicRegistry is entered
Scan ==
    /\ pc = "start"
    /\ \E off \in OfflineOverrides :
        LET cfg == buildConfig([offline |-> off, severityThreshold |-> None,
                                scopes |-> None, ignorePackages |-> None])
            ctx == BuildContext(packageJson, lockfile, registryConfig)
        IN /\ config' = [offline |-> cfg.offline]
           /\ context' = ctx
           /\ ruleFindings' = ALL_RULES(ctx)
           /\ IF ~OnlineCheckRuns(cfg)
              THEN /\ pc' = "filter"
                   /\ UNCHANGED net
                   /\ UNCHANGED ckVars
              ELSE /\ pc' = "online"
                   /\ net' \in ScanNets(Len(getScopedDependencies(ctx)))
                   /\ CheckerEnter(ctx.dependencies, DefaultConcurrency)
    /\ UNCHANGED <<ws, packageJson, lockfile, registryConfig, stages, result, fs>>

\* the rest of analyze: merge, the three filters, the sort, the summary.
\* The options other than offline are first read here, so they are drawn here.
Assemble ==
    /\ \/ pc = "filter"
       \/ pc = "online" /\ ckPc = "returned"
    /\ \E t \in ThresholdOverrides, sc \in ScopesOverrides, ig \in IgnoreOverrides :
        LET cfg == buildConfig([offline |-> Some(config.offline), severityThreshold |-> t,
                                scopes |-> sc, ignorePackages |-> ig])
            merged == ruleFindings \o (IF OnlineCheckRuns(config) THEN ckFindings ELSE <<>>)
            byScope == FilterByScope(merged, cfg.scopes)
            byIgnore == FilterByIgnored(byScope, cfg.ignorePackages)
            bySeverity == FilterBySeverity(byIgnore, cfg.severityThreshold)
            sorted == SortBySeverity(bySeverity)
        IN /\ config' = cfg
           /\ stages' = [merged |-> merged, scoped |-> byScope, ignored |-> byIgnore,
                         thresholded |-> bySeverity]
           /\ result' = [findings |-> sorted, summary |-> buildSummary(sorted)]
    /\ pc' = "done"
    /\ UNCHANGED <<ws, packageJson, lockfile, registryConfig, context, ruleFindings, net, fs>>
    /\ UNCHANGED ckVars

Next == Scan \/ StartBatch \/ ProbeSettle \/ BatchSettled \/ CheckerReturn \/ Assemble

Spec == Init /\ [][Next]_vars

-----------------------------------------------------------------------------
(* checkPublicRegistry called on its own                                   *)

Letters == <<"a", "b", "c", "d", "e", "f", "g", "h", "i", "j", "k", "l", "m", "n", "o", "p">>

\* n scoped manifest entries
ManifestOf(n) ==
    [k \in 1..n |-> [key |-> <<"@", "s", "/", Letters[k]>>, value |-> VersionExact]]

\* the dependency list of n scoped entries; when mixed, an unscoped one follows the first
DependencyList(n, mixed) ==
    LET scoped == addDeps(ManifestOf(n), FALSE, None)
        plain == addDeps(<<[key |-> NameLodash, value |-> VersionCaret]>>, FALSE, None)
    IN IF mixed /\ n >= 1 THEN <<scoped[1]>> \o plain \o Tail(scoped)
       ELSE IF mixed THEN plain
       ELSE scoped

\* the calls explored: every small list with every limit and every outcome, and the
\* list of twelve with the default limit under three network conditions
CheckerCalls ==
    {[dependencies |-> DependencyList(n, mixed), concurrency |-> c,
      net |-> [k \in 1..n |-> Responses]] :
        n \in 0..MaxScoped, mixed \in BOOLEAN, c \in 1..MaxConcurrency}
    \cup
    {[dependencies |-> DependencyList(12, FALSE), concurrency |-> DefaultConcurrency,
      net |-> nt] :
        nt \in {[k \in 1..12 |-> {NotFound404}],
                [k \in 1..12 |-> IF k = 8 THEN {Threw} ELSE {Ok200}],
                [k \in 1..12 |-> IF k = 8 THEN {Threw} ELSE {NotFound404}]}}

InitChecker ==
    /\ pc = "direct"
    /\ packageJson = [name |-> None, dependencies |-> <<>>, devDependencies |-> <<>>,
                      hasPreinstall |-> FALSE, hasPostinstall |-> FALSE, hasInstall |-> FALSE]
    /\ lockfile = None
    /\ registryConfig = NoConfig
    /\ config = [offline |-> FALSE]
    /\ context = BuildContext(packageJson, lockfile, registryConfig)
    /\ ruleFindings = <<>>
    /\ stages = [merged |-> <<>>, scoped |-> <<>>, ignored |-> <<>>, thresholded |-> <<>>]
    /\ result = [findings |-> <<>>, summary |-> buildSummary(<<>>)]
    /\ \E call \in CheckerCalls :
        /\ ckArgs = [dependencies |-> call.dependencies, concurrency |-> call.concurrency]
        /\ net = call.net
    /\ ckPc = "idle"
    /\ ckScoped = <<>>
    /\ ckI = 0
    /\ ckBatch = <<>>
    /\ ckFindings = <<>>
    /\ probeLog = <<>>
    /\ batchLog = <<>>
    /\ outcomeLog = <<>>
    /\ fs = NoFiles
    /\ ws = NoWorkspaceScan

\* a caller invokes checkPublicRegistry(dependencies, concurrency)
Invoke ==
    /\ pc = "direct"
    /\ ckPc = "idle"
    /\ CheckerEnter(ckArgs.dependencies, ckArgs.concurrency)
    /\ UNCHANGED <<ws, pc, packageJson, lockfile, registryConfig, config, context,
                   ruleFindings, stages, result, net, fs>>

NextChecker == Invoke \/ StartBatch \/ ProbeSettle \/ BatchSettled \/ CheckerReturn

SpecChecker == InitChecker /\ [][NextChecker]_vars

\* the calls with any limit a caller may pass, zero included
CheckerCallsAnyLimit ==
    {[dependencies |-> DependencyList(n, mixed), concurrency |-> c,
      net |-> [k \in 1..n |-> Responses]] :
        n \in 0..MaxScoped, mixed \in BOOLEAN, c \in 0..MaxConcurrency}

InitCheckerAnyLimit ==
    /\ pc = "direct"
    /\ packageJson = [name |-> None, dependencies |-> <<>>, devDependencies |-> <<>>,
                      hasPreinstall |-> FALSE, hasPostinstall |-> FALSE, hasInstall |-> FALSE]
    /\ lockfile = None
    /\ registryConfig = NoConfig
    /\ config = [offline |-> FALSE]
    /\ context = BuildContext(packageJson, lockfile, registryConfig)
    /\ ruleFindings = <<>>
    /\ stages = [merged |-> <<>>, scoped |-> <<>>, ignored |-> <<>>, thresholded |-> <<>>]
    /\ result = [findings |-> <<>>, summary |-> buildSummary(<<>>)]
    /\ \E call \in CheckerCallsAnyLimit :
        /\ ckArgs = [dependencies |-> call.dependencies, concurrency |-> call.concurrency]
        /\ net = call.net
    /\ ckPc = "idle"
    /\ ckScoped = <<>>
    /\ ckI = 0
    /\ ckBatch = <<>>
    /\ ckFindings = <<>>
    /\ probeLog = <<>>
    /\ batchLog = <<>>
    /\ outcomeLog = <<>>
    /\ fs = NoFiles
    /\ ws = NoWorkspaceScan

\* the event loop runs every continuation that is ready, and every probe settles
\* within its timeout
SpecCheckerLive == InitCheckerAnyLimit /\ [][NextChecker]_vars /\ WF_vars(NextChecker)

-----------------------------------------------------------------------------
(* The parsing steps of scanForConfusion                                   *)

InitParse ==
    /\ pc = "parse"
    /\ fs \in ParseDirs
    /\ ws = NoWorkspaceScan
    /\ packageJson = [name |-> None, dependencies |-> <<>>, devDependencies |-> <<>>,
                      hasPreinstall |-> FALSE, hasPostinstall |-> FALSE, hasInstall |-> FALSE]
    /\ lockfile = None
    /\ registryConfig = NoConfig
    /\ config = [offline |-> TRUE]
    /\ context = BuildContext(packageJson, lockfile, registryConfig)
    /\ ruleFindings = <<>>
    /\ stages = [merged |-> <<>>, scoped |-> <<>>, ignored |-> <<>>, thresholded |-> <<>>]
    /\ result = [findings |-> <<>>, summary |-> buildSummary(<<>>)]
    /\ net = <<>>
    /\ ckArgs = [dependencies |-> <<>>, concurrency |-> DefaultConcurrency]
    /\ ckPc = "idle"
    /\ ckScoped = <<>>
    /\ ckI = 0
    /\ ckBatch = <<>>
    /\ ckFindings = <<>>
    /\ probeLog = <<>>
    /\ batchLog = <<>>
    /\ outcomeLog = <<>>

\* `const lockfile = parseLockfile(config.rootDir)`: a throw ends the scan
ReadLockfile ==
    /\ pc = "parse"
    /\ LET out == parseLockfile(fs)
       IN IF out.threw
          THEN pc' = "threw" /\ UNCHANGED lockfile
          ELSE pc' = "lockfile" /\ lockfile' = out.value
    /\ UNCHANGED <<ws, packageJson, registryConfig, config, context, ruleFindings, stages,
                   result, net, fs>>
    /\ UNCHANGED ckVars

\* `const registryConfig = parseRegistryConfig(config.rootDir)`
ReadRegistryConfig ==
    /\ pc = "lockfile"
    /\ registryConfig' = parseRegistryConfig(fs)
    /\ pc' = "parsed"
    /\ UNCHANGED <<ws, packageJson, lockfile, config, context, ruleFindings, stages,
                   result, net, fs>>
    /\ UNCHANGED ckVars

NextParse == ReadLockfile \/ ReadRegistryConfig

SpecParse == InitParse /\ [][NextParse]_vars

-----------------------------------------------------------------------------
(* scanWorkspace                                                           *)

\* parsePackageJson(rootDir): throws when package.json is absent or JSON.parse
\* rejects it
parsePackageJson(project) ==
    IF ~IsSome(project.manifest) THEN Thrown
    ELSE IF ~project.manifest[1].wellFormed THEN Thrown
    ELSE Returned(project.manifest[1].json)

\* the scan of the project cannot build its context: a parser throws
ScanThrows(project) ==
    parsePackageJson(project).threw \/ parseLockfile(project.files).threw

\* scanForConfusion({...overrides, rootDir}) run to completion in offline mode:
\* the three parsers, the context, then analyze, each local in the variable of
\* its name; a throw of a parser is not caught and leaves no result
scanForConfusion(project, overrides) ==
    IF ScanThrows(project)
    THEN UNCHANGED <<packageJson, lockfile, registryConfig, config, context,
                     ruleFindings, stages, result>>
    ELSE /\ config' = buildConfig(overrides)
         /\ packageJson' = parsePackageJson(project).value
         /\ lockfile' = parseLockfile(project.files).value
         /\ registryConfig' = parseRegistryConfig(project.files)
         /\ context' = BuildContext(packageJson', lockfile', registryConfig')
         /\ ruleFindings' = ALL_RULES(context')
         /\ \E byScope \in {FilterByScope(ruleFindings', config'.scopes)} :
            \E byIgnore \in {FilterByIgnored(byScope, config'.ignorePackages)} :
            \E bySeverity \in {FilterBySeverity(byIgnore, config'.severityThreshold)} :
            \E sorted \in {SortBySeverity(bySeverity)} :
               /\ stages' = [merged |-> ruleFindings', scoped |-> byScope,
                             ignored |-> byIgnore, thresholded |-> bySeverity]
               /\ result' = [findings |-> sorted, summary |-> buildSummary(sorted)]

\* what the awaited scan gave its caller
Awaited(project) == IF ScanThrows(project) THEN Thrown ELSE Returned(result')

\* the package's result appended although its scan threw
PushResult_KeepsFailed(acc, packageName, out) ==
    [acc EXCEPT !.packageResults =
                    Append(@, [packageName |-> packageName,
                               result |-> IF out.threw
                                          THEN [findings |-> <<>>,
                                                summary |-> buildSummary(<<>>)]
                                          ELSE out.value]),
                !.allFindings = IF out.threw THEN @ ELSE @ \o out.value.findings]

\* the package's result appended without its findings reaching allFindings
PushResult_ForgetsFindings(acc, packageName, out) ==
    IF out.threw THEN acc
    ELSE [acc EXCEPT !.packageResults =
                         Append(@, [packageName |-> packageName, result |-> out.value])]

\* try { result = await scanForConfusion(...); packageResults.push(...);
\*       allFindings.push(...result.findings) } catch { }
PushResult(acc, packageName, out) ==
    IF out.threw THEN acc
    ELSE [acc EXCEPT !.packageResults =
                         Append(@, [packageName |-> packageName, result |-> out.value]),
                     !.allFindings = @ \o out.value.findings]

MaxPackages == 2

\* the manifests of the projects scanned
ManifestRisky ==
    [name |-> Some(ProjectName), dependencies |-> <<DepPool[1]>>, devDependencies |-> <<>>,
     hasPreinstall |-> FALSE, hasPostinstall |-> TRUE, hasInstall |-> FALSE]

\* an exact version written with its operator
VersionEq == <<"=">> \o VersionExact

ManifestLocked ==
    [name |-> None,
     dependencies |-> <<DepPool[1], DepPool[3], [key |-> NameOrgCli, value |-> VersionEq]>>,
     devDependencies |-> DevPool \o <<[key |-> NameAcmeLib, value |-> VersionCaret]>>,
     hasPreinstall |-> FALSE, hasPostinstall |-> FALSE, hasInstall |-> FALSE]

\* project directories: one with neither lockfile nor registry config, one with
\* both whose lockfile flags @acme/lib as having install scripts, one whose
\* package-lock.json is not JSON, one whose package.json is gone by the time it
\* is scanned
ProjectPool ==
    <<[manifest |-> Some([wellFormed |-> TRUE, json |-> ManifestRisky]), files |-> NoFiles],
      [manifest |-> Some([wellFormed |-> TRUE, json |-> ManifestLocked]),
       files |-> Dir(Some(JsonText(Some(<<[key |-> <<"node_modules/">> \o NameAcmeLib,
                                            value |-> [version |-> Some(VersionExact),
                                                       resolved |-> Some(PrivateUrl),
                                                       integrity |-> Some(Sha),
                                                       hasInstallScripts |-> Some(TRUE)]]>>),
                                    None)),
                     None, None, Some(NpmrcFull), None)],
      [manifest |-> Some([wellFormed |-> TRUE, json |-> ManifestRisky]),
       files |-> Dir(Some(MalformedJson), None, None, None, None)],
      [manifest |-> None, files |-> NoFiles]>>

\* the calls of scanWorkspace explored: the root project, what detectWorkspace
\* finds under it (nothing, or the packages in discovery order), the overrides
WorkspaceCalls ==
    {[root |-> ProjectPool[r], workspace |-> None, overrides |-> o] :
        r \in 1..Len(ProjectPool),
        o \in {[offline |-> None, severityThreshold |-> t, scopes |-> None,
                ignorePackages |-> None] : t \in {None, Some("high")}}}
    \cup
    {[root |-> ProjectPool[r],
      workspace |-> Some([i \in 1..Len(seq) |->
                            [name |-> Letters[i], project |-> ProjectPool[seq[i]]]]),
      overrides |-> o] :
        r \in 1..3,
        seq \in SeqsUpTo(Len(ProjectPool), MaxPackages),
        o \in {[offline |-> None, severityThreshold |-> t, scopes |-> None,
                ignorePackages |-> None] : t \in {None, Some("high")}}}

InitWorkspace ==
    /\ pc = "workspace"
    /\ \E call \in WorkspaceCalls :
          ws = [pc |-> "start", call |-> call, k |-> 0, packageResults |-> <<>>,
                allFindings |-> <<>>, out |-> None]
    /\ packageJson = [name |-> None, dependencies |-> <<>>, devDependencies |-> <<>>,
                      hasPreinstall |-> FALSE, hasPostinstall |-> FALSE, hasInstall |-> FALSE]
    /\ lockfile = None
    /\ registryConfig = NoConfig
    /\ config = [offline |-> TRUE]
    /\ context = BuildContext(packageJson, lockfile, registryConfig)
    /\ ruleFindings = <<>>
    /\ stages = [merged |-> <<>>, scoped |-> <<>>, ignored |-> <<>>, thresholded |-> <<>>]
    /\ result = [findings |-> <<>>, summary |-> buildSummary(<<>>)]
    /\ net = <<>>
    /\ ckArgs = [dependencies |-> <<>>, concurrency |-> DefaultConcurrency]
    /\ ckPc = "idle"
    /\ ckScoped = <<>>
    /\ ckI = 0
    /\ ckBatch = <<>>
    /\ ckFindings = <<>>
    /\ probeLog = <<>>
    /\ batchLog = <<>>
    /\ outcomeLog = <<>>
    /\ fs = NoFiles

\* scanWorkspace up to its first await and past it: without a workspace the single
\* scan is wrapped and returned (its throw is the call's throw), with one the
\* root is scanned inside try/catch
WsScanRoot ==
    /\ ws.pc = "start"
    /\ scanForConfusion(ws.call.root, ws.call.overrides)
    /\ IF ~IsSome(ws.call.workspace)
       THEN IF ScanThrows(ws.call.root)
            THEN ws' = [ws EXCEPT !.pc = "threw"]
            ELSE ws' = [ws EXCEPT
                           !.pc = "returned",
                           !.out = Some([isWorkspace |-> FALSE,
                                         packageResults |->
                                             <<[packageName |-> "root",
                                                result |-> result']>>,
                                         combinedSummary |-> result'.summary])]
       ELSE ws' = [PushResult(ws, "root", Awaited(ws.call.root))
                      EXCEPT !.pc = "packages", !.k = 1]
    /\ UNCHANGED <<pc, net, fs>>
    /\ UNCHANGED ckVars

\* one turn of `for (const pkg of workspace.packages)`
WsScanPackage ==
    /\ ws.pc = "packages"
    /\ ws.k <= Len(ws.call.workspace[1])
    /\ \E pkg \in {ws.call.workspace[1][ws.k]} :
          /\ scanForConfusion(pkg.project, ws.call.overrides)
          /\ ws' = [PushResult(ws, pkg.name, Awaited(pkg.project)) EXCEPT !.k = ws.k + 1]
    /\ UNCHANGED <<pc, net, fs>>
    /\ UNCHANGED ckVars

\* after the loop: the combined summary counted over allFindings, and the return
WsReturn ==
    /\ ws.pc = "packages"
    /\ ws.k > Len(ws.call.workspace[1])
    /\ ws' = [ws EXCEPT
                 !.pc = "returned",
                 !.out = Some([isWorkspace |-> TRUE,
                               packageResults |-> ws.packageResults,
                               combinedSummary |->
                                   [total |-> Len(ws.allFindings),
                                    critical |-> CountSeverity(ws.allFindings, "critical"),
                                    high |-> CountSeverity(ws.allFindings, "high"),
                                    medium |-> CountSeverity(ws.allFindings, "medium"),
                                    low |-> CountSeverity(ws.allFindings, "low"),
                                    info |-> CountSeverity(ws.allFindings, "info")]])]
    /\ UNCHANGED <<pc, packageJson, lockfile, registryConfig, config, context,
                   ruleFindings, stages, result, net, fs>>
    /\ UNCHANGED ckVars

NextWorkspace == WsScanRoot \/ WsScanPackage \/ WsReturn

SpecWorkspace == InitWorkspace /\ [][NextWorkspace]_vars

-----------------------------------------------------------------------------
(* Properties                                                              *)

RulesRan == pc \in {"filter", "online", "done"}

AllowListGiven == IsSome(config.scopes) /\ Len(config.scopes[1]) > 0

IgnoreListGiven == IsSome(config.ignorePackages) /\ Len(config.ignorePackages[1]) > 0

Ordinal(f) == SEVERITY_ORDER[f.severity]

Occurs(f, findings) == \E i \in 1..Len(findings) : findings[i] = f

CountRule(findings, id) == Cardinality({i \in 1..Len(findings) : findings[i].ruleId = id})

\* the place of a finding's source in the merged list: the rules in ALL_RULES
\* order, then the online check
SourcePosition(id) ==
    CASE id = "DC-001" -> 1 [] id = "DC-002" -> 2 [] id = "DC-003" -> 3
      [] id = "DC-004" -> 4 [] id = "DC-005" -> 5 [] id = "DC-006" -> 6
      [] id = "DC-007" -> 7 [] id = "DC-009" -> 8 [] id = "DC-010" -> 9
      [] id = "DC-008" -> 10

\* a name of the form @scope/name
ScopedForm(name) == Len(name) > 0 /\ name[1] = "@" /\ \E i \in 2..Len(name) : name[i] = "/"

\* the scope of a package name per the data model: the part before the first `/`
\* of a name that starts with `@`
NameScope(name) ==
    SubSeq(name, 1, (CHOOSE i \in 1..Len(name) :
                        name[i] = "/" /\ \A j \in 1..(i - 1) : name[j] # "/") - 1)

\* C1: every finding of a result of analyze has a severity ordinal that is at most
\* the ordinal of the severity threshold of the scan
C1_ThresholdRespected ==
    pc = "done" =>
        \A i \in 1..Len(result.findings) :
            Ordinal(result.findings[i]) <= SEVERITY_ORDER[config.severityThreshold]

\* a scan with online findings and threshold high where the filter dropped some
\* finding and kept an online one
C1_Witness ==
    /\ pc = "done"
    /\ ~config.offline
    /\ config.severityThreshold = "high"
    /\ Len(result.findings) < Len(stages.ignored)
    /\ \E i \in 1..Len(result.findings) : result.findings[i].ruleId = "DC-008"

\* C2: the findings of a result are in non-decreasing severity ordinal, findings of
\* one severity are in the order they had before the sort, and so rule findings
\* come in ALL_RULES order and before online findings of the same severity
C2_SortedStable ==
    pc = "done" =>
        /\ \A i, j \in 1..Len(result.findings) :
              i < j => Ordinal(result.findings[i]) <= Ordinal(result.findings[j])
        /\ \A sev \in Severities :
              SelectSeq(result.findings, LAMBDA f : f.severity = sev)
                = SelectSeq(stages.thresholded, LAMBDA f : f.severity = sev)
        /\ \A i, j \in 1..Len(result.findings) :
              (i < j /\ result.findings[i].severity = result.findings[j].severity)
                => SourcePosition(result.findings[i].ruleId)
                     <= SourcePosition(result.findings[j].ruleId)

\* the sort had to move a finding, and the result holds a rule finding and an
\* online finding of the same severity
C2_Witness ==
    /\ pc = "done"
    /\ \E i, j \in 1..Len(stages.thresholded) :
          i < j /\ Ordinal(stages.thresholded[i]) > Ordinal(stages.thresholded[j])
    /\ \E i, j \in 1..Len(result.findings) :
          /\ i < j
          /\ result.findings[i].severity = result.findings[j].severity
          /\ result.findings[i].ruleId = "DC-004"
          /\ result.findings[j].ruleId = "DC-008"

\* C3: the summary of a result counts the returned findings: total is their number,
\* each per-severity count is the number of them with that severity, and the five
\* counts add up to total
C3_SummaryOfReturned ==
    pc = "done" =>
        /\ result.summary.total = Len(result.findings)
        /\ \A sev \in Severities :
              result.summary[sev]
                = Cardinality({i \in 1..Len(result.findings) : result.findings[i].severity = sev})
        /\ result.summary.critical + result.summary.high + result.summary.medium
             + result.summary.low + result.summary.info = result.summary.total

\* a result whose filters dropped findings and which holds low and info findings
C3_Witness ==
    /\ pc = "done"
    /\ result.summary.total < Len(stages.merged)
    /\ result.summary.low > 0
    /\ result.summary.info > 0
    /\ result.summary.high > 0

\* a finding the rules report for the project as a whole
ProjectLevel(f) ==
    \/ f.ruleId \in {"DC-001", "DC-004", "DC-009", "DC-010"}
    \/ f.ruleId = "DC-006" /\ f.title = <<"Install scripts detected">>

\* C4: with a non-empty scope allow-list, every project-level finding of the rules
\* that passes the severity threshold is in the result (stated for scans without
\* an ignore list, where only the scope filter and the threshold can drop a finding)
C4_ProjectLevelKept ==
    (pc = "done" /\ AllowListGiven /\ ~IsSome(config.ignorePackages)) =>
        \A i \in 1..Len(ruleFindings) :
            (/\ ProjectLevel(ruleFindings[i])
             /\ Ordinal(ruleFindings[i]) <= SEVERITY_ORDER[config.severityThreshold])
              => Occurs(ruleFindings[i], result.findings)

\* C5 as claimed: with a non-empty scope allow-list, every finding of the result
\* either has no associated package or has one whose scope is in the allow-list
C5_OnlyProjectLevelExempt ==
    (pc = "done" /\ AllowListGiven) =>
        \A i \in 1..Len(result.findings) :
            IsSome(result.findings[i].packageName) =>
                /\ ScopedForm(result.findings[i].packageName[1])
                /\ NameScope(result.findings[i].packageName[1]) \in Range(config.scopes[1])

ScopeExempt(f) == ~IsSome(f.packageName) \/ ~ScopedForm(f.packageName[1])

\* C5 amended: with a non-empty scope allow-list, no finding of the result has an
\* associated package name of the form @scope/name whose scope is outside the
\* allow-list, and the scope filter keeps every finding that has no associated
\* package or whose package name is not of that form
C5_ScopedOutsideDropped ==
    (pc = "done" /\ AllowListGiven) =>
        /\ \A i \in 1..Len(result.findings) :
              (/\ IsSome(result.findings[i].packageName)
               /\ ScopedForm(result.findings[i].packageName[1]))
                => NameScope(result.findings[i].packageName[1]) \in Range(config.scopes[1])
        /\ SelectSeq(stages.merged, ScopeExempt) = SelectSeq(stages.scoped, ScopeExempt)

\* the scope filter dropped a finding of another scope and the result holds a
\* finding of an allowed scope and one of an unscoped package
C5_Witness ==
    /\ pc = "done"
    /\ AllowListGiven
    /\ \E i \in 1..Len(stages.merged) :
          /\ IsSome(stages.merged[i].packageName)
          /\ ScopedForm(stages.merged[i].packageName[1])
          /\ NameScope(stages.merged[i].packageName[1]) \notin Range(config.scopes[1])
    /\ \E i \in 1..Len(result.findings) : result.findings[i].packageName = Some(NameAcmeLib)
    /\ \E i \in 1..Len(result.findings) : result.findings[i].packageName = Some(NameLodash)

\* C6: with a non-empty ignore list, no finding of the result has an associated
\* package name of the list, and the ignore filter keeps every finding without an
\* associated package
C6_IgnoredDropped ==
    (pc = "done" /\ IgnoreListGiven) =>
        /\ \A i \in 1..Len(result.findings) :
              IsSome(result.findings[i].packageName)
                => result.findings[i].packageName[1] \notin Range(config.ignorePackages[1])
        /\ SelectSeq(stages.scoped, LAMBDA f : ~IsSome(f.packageName))
             = SelectSeq(stages.ignored, LAMBDA f : ~IsSome(f.packageName))

\* the ignore filter met a finding of an ignored package and one without a package
C6_Witness ==
    /\ pc = "done"
    /\ IgnoreListGiven
    /\ \E i \in 1..Len(stages.scoped) :
          /\ IsSome(stages.scoped[i].packageName)
          /\ stages.scoped[i].packageName[1] \in Range(config.ignorePackages[1])
    /\ \E i \in 1..Len(stages.ignored) : ~IsSome(stages.ignored[i].packageName)

\* the manifest declares a dependency whose name starts with `@`
HasScopedDependency ==
    \/ \E i \in 1..Len(packageJson.dependencies) : packageJson.dependencies[i].key[1] = "@"
    \/ \E i \in 1..Len(packageJson.devDependencies) : packageJson.devDependencies[i].key[1] = "@"

\* C7: the rules never report DC-001 and DC-002 together: with a scoped dependency
\* and no config file there is exactly one DC-001 finding and no DC-002 finding,
\* and with a config file there is no DC-001 finding
C7_NoConfigExcludesNoMapping ==
    RulesRan =>
        /\ (~registryConfig.hasConfig /\ HasScopedDependency)
              => (CountRule(ruleFindings, "DC-001") = 1 /\ CountRule(ruleFindings, "DC-002") = 0)
        /\ registryConfig.hasConfig => CountRule(ruleFindings, "DC-001") = 0
        /\ ~(CountRule(ruleFindings, "DC-001") > 0 /\ CountRule(ruleFindings, "DC-002") > 0)

\* the rules ran on a project with two scoped dependencies and no config file
C7_Witness ==
    /\ RulesRan
    /\ ~registryConfig.hasConfig
    /\ Len(packageJson.dependencies) = 2
    /\ \A i \in 1..Len(packageJson.dependencies) : packageJson.dependencies[i].key[1] = "@"
    /\ CountRule(ruleFindings, "DC-001") = 1

\* C8: with a private default registry and no per-scope mapping the rules report
\* DC-010 with severity info for the default registry and report no DC-002
C8_PrivateDefaultCovers ==
    (/\ RulesRan
     /\ registryConfig.defaultRegistry = Some(PrivateUrl)
     /\ registryConfig.scopeRegistries = <<>>) =>
        /\ \E i \in 1..Len(ruleFindings) :
              /\ ruleFindings[i].ruleId = "DC-010"
              /\ ruleFindings[i].severity = "info"
              /\ ruleFindings[i].evidence = Some(<<"Registry: ">> \o PrivateUrl)
        /\ CountRule(ruleFindings, "DC-002") = 0

\* the rules ran on a project with scoped dependencies under a private default
\* registry and no per-scope mapping
C8_Witness ==
    /\ RulesRan
    /\ registryConfig.defaultRegistry = Some(PrivateUrl)
    /\ registryConfig.scopeRegistries = <<>>
    /\ HasScopedDependency
    /\ CountRule(ruleFindings, "DC-010") = 1

\* the scan of the manifest {dependencies: {"@acme/lib": "^1.0.0"}} with no
\* lockfile, no config file and the default options has returned
C9_Scan ==
    /\ pc = "done"
    /\ packageJson = [name |-> None,
                      dependencies |-> <<[key |-> NameAcmeLib, value |-> VersionCaret]>>,
                      devDependencies |-> <<>>,
                      hasPreinstall |-> FALSE, hasPostinstall |-> FALSE, hasInstall |-> FALSE]
    /\ lockfile = None
    /\ registryConfig = NoConfig
    /\ config = [offline |-> TRUE, severityThreshold |-> "info",
                 scopes |-> None, ignorePackages |-> None]

HasFinding(id, sev) ==
    \E i \in 1..Len(result.findings) :
        result.findings[i].ruleId = id /\ result.findings[i].severity = sev

\* C9 as claimed: that scan returns DC-001 (high) and DC-004 (high) and the summary
\* {total 2, critical 0, high 2, medium 0, low 0, info 0}
C9_SummaryOfTwo ==
    C9_Scan =>
        /\ HasFinding("DC-001", "high")
        /\ HasFinding("DC-004", "high")
        /\ result.summary = [total |-> 2, critical |-> 0, high |-> 2, medium |-> 0,
                             low |-> 0, info |-> 0]

\* C9 amended: that scan returns DC-001 (high), DC-004 (high) and DC-007 (medium)
\* for the unpinned range, in this order, and the summary
\* {total 3, critical 0, high 2, medium 1, low 0, info 0}
C9_SummaryOfThree ==
    C9_Scan =>
        /\ [i \in 1..Len(result.findings) |->
              <<result.findings[i].ruleId, result.findings[i].severity>>]
             = <<<<"DC-001", "high">>, <<"DC-004", "high">>, <<"DC-007", "medium">>>>
        /\ result.summary = [total |-> 3, critical |-> 0, high |-> 2, medium |-> 1,
                             low |-> 0, info |-> 0]

C9_Witness == C9_Scan /\ result.summary.total > 0

\* the number of scoped dependencies handed to checkPublicRegistry
ScopedGiven ==
    Cardinality({k \in 1..Len(ckArgs.dependencies) : ckArgs.dependencies[k].name[1] = "@"})

\* the batch sizes of s probes under limit c: full batches, then the remainder
ExpectedBatches(s, c) ==
    [b \in 1..((s + c - 1) \div c) |-> IF b * c <= s THEN c ELSE s - (b - 1) * c]

\* C10: checkPublicRegistry with limit c >= 1 never has more than c probes
\* outstanding, and when it returns it has issued exactly one probe per scoped
\* dependency in ceil(S/c) batches of c probes, the last with the remainder
\* (5, 5, 2 for twelve under limit 5)
C10_BatchesOfLimit ==
    (ckPc # "idle" /\ ckArgs.concurrency >= 1) =>
        /\ Cardinality({j \in 1..Len(ckBatch) : ckBatch[j].state = "pending"})
             <= ckArgs.concurrency
        /\ \A k \in 1..Len(probeLog) : probeLog[k] <= 1
        /\ ckPc = "returned" =>
              /\ Len(probeLog) = ScopedGiven
              /\ \A k \in 1..ScopedGiven : probeLog[k] = 1
              /\ batchLog = ExpectedBatches(ScopedGiven, ckArgs.concurrency)
              /\ (ScopedGiven = 12 /\ ckArgs.concurrency = 5) => batchLog = <<5, 5, 2>>

\* the call with twelve scoped dependencies and limit 5 has returned
C10_Witness ==
    /\ ckPc = "returned"
    /\ ScopedGiven = 12
    /\ ckArgs.concurrency = 5
    /\ Len(batchLog) = 3

\* C11: whenever checkPublicRegistry starts a probe, every probe it started before
\* (the probes of the earlier batches) has settled, in whatever order the probes
\* of a batch complete
C11_NextBatchAfterSettled ==
    [][\A m \in DOMAIN probeLog :
          (m \in DOMAIN probeLog' /\ probeLog[m] = 0 /\ probeLog'[m] = 1)
            => \A k \in DOMAIN probeLog :
                  probeLog[k] >= 1 => Len(outcomeLog[k]) >= 1]_vars

\* the second batch is under way and its second probe has settled before its first
C11_Witness ==
    /\ ckPc = "await"
    /\ Len(batchLog) = 2
    /\ Len(ckBatch) >= 2
    /\ ckBatch[1].state = "pending"
    /\ ckBatch[2].state = "fulfilled"

\* a probe that timed out, met a network error or got a status other than 200/404
Failed(response) == response.threw \/ response.status \notin {200, 404}

\* the findings checkPublicRegistry holds for the k-th scoped dependency
FindingsFor(k) ==
    SelectSeq(ckFindings, LAMBDA f : f.packageName = Some(ckScoped[k].name))

\* C12: a failed probe stops nothing: while checkPublicRegistry runs it can always
\* take a step, and when it returns every scoped dependency has been probed and
\* has settled exactly once (no retry), a dependency whose probe failed has
\* exactly one finding, DC-008 of severity low, and every other dependency has
\* the findings of its own outcome
C12_FailureIsolated ==
    /\ ckPc \in {"loop", "await"}
          => ENABLED (StartBatch \/ ProbeSettle \/ BatchSettled \/ CheckerReturn)
    /\ ckPc = "returned" =>
          \A k \in 1..Len(ckScoped) :
              /\ probeLog[k] = 1
              /\ Len(outcomeLog[k]) = 1
              /\ Failed(outcomeLog[k][1])
                    => /\ Len(FindingsFor(k)) = 1
                       /\ FindingsFor(k)[1].ruleId = "DC-008"
                       /\ FindingsFor(k)[1].severity = "low"
              /\ ~Failed(outcomeLog[k][1])
                    => Len(FindingsFor(k)) = (IF outcomeLog[k][1].status = 200 THEN 1 ELSE 0)

\* a call has returned whose first probe failed in a batch of several, and a
\* probe of a later batch found its package
C12_Witness ==
    /\ ckPc = "returned"
    /\ Len(batchLog) >= 2
    /\ batchLog[1] >= 2
    /\ Failed(outcomeLog[1][1])
    /\ \E k \in (batchLog[1] + 1)..Len(ckScoped) :
          /\ outcomeLog[k] = <<Ok200>>
          /\ Len(FindingsFor(k)) = 1

\* the number of findings of rule DC-008 and severity sev held for `name`
OnlineCount(name, sev) ==
    Cardinality({i \in 1..Len(ckFindings) :
                    /\ ckFindings[i].ruleId = "DC-008"
                    /\ ckFindings[i].severity = sev
                    /\ ckFindings[i].packageName = Some(name)})

\* C13: only scoped dependencies are probed, and when checkPublicRegistry returns
\* a scoped dependency has one high DC-008 finding and nothing else if its probe
\* got status 200, one low DC-008 finding and nothing else if its probe failed,
\* and no finding if it got status 404; an unscoped dependency has no finding
C13_FindingPerOutcome ==
    /\ \A j \in 1..Len(ckBatch) : ckBatch[j].dep.name[1] = "@"
    /\ ckPc # "idle" => Len(probeLog) = ScopedGiven
    /\ ckPc = "returned" =>
          /\ \A k \in 1..Len(ckScoped) :
                LET r == outcomeLog[k][1]
                    name == ckScoped[k].name
                IN /\ OnlineCount(name, "high")
                        = (IF ~r.threw /\ r.status = 200 THEN 1 ELSE 0)
                   /\ OnlineCount(name, "low")
                        = (IF r.threw \/ r.status \notin {200, 404} THEN 1 ELSE 0)
                   /\ Len(FindingsFor(k)) = OnlineCount(name, "high") + OnlineCount(name, "low")
          /\ \A i \in 1..Len(ckFindings) :
                /\ ckFindings[i].ruleId = "DC-008"
                /\ ckFindings[i].packageName[1][1] = "@"

\* a call on a list with an unscoped dependency has returned after one probe got
\* 200, one got 404 and one failed
C13_Witness ==
    /\ ckPc = "returned"
    /\ \E d \in 1..Len(ckArgs.dependencies) : ckArgs.dependencies[d].name[1] # "@"
    /\ \E k \in 1..Len(ckScoped) : outcomeLog[k] = <<Ok200>>
    /\ \E k \in 1..Len(ckScoped) : outcomeLog[k] = <<NotFound404>>
    /\ \E k \in 1..Len(ckScoped) : Failed(outcomeLog[k][1])

\* C14: in offline mode checkPublicRegistry is never entered and no probe is
\* issued, and the merged findings and the result hold no DC-008 finding
C14_OfflineSkipsOnline ==
    config.offline =>
        /\ ckPc = "idle"
        /\ probeLog = <<>>
        /\ batchLog = <<>>
        /\ ckBatch = <<>>
        /\ pc = "done" => /\ CountRule(stages.merged, "DC-008") = 0
                          /\ CountRule(result.findings, "DC-008") = 0

\* an offline scan of a project with scoped dependencies has returned findings
C14_Witness ==
    /\ pc = "done"
    /\ config.offline
    /\ Len(getScopedDependencies(context)) >= 2
    /\ Len(result.findings) > 0

\* parseLockfile has returned
LockfileRead == pc \in {"lockfile", "parsed"}

Keys(table) == [i \in 1..Len(table) |-> table[i].key]

\* C15: parseLockfile returns the table of package-lock.json when that file is
\* present, else of yarn.lock when present, else of pnpm-lock.yaml when present,
\* with entries of that one file only, and returns no lockfile exactly when none
\* of the three is present; it returns nothing only by throwing on a
\* package-lock.json that is not well-formed JSON
C15_PriorityByPresence ==
    /\ LockfileRead =>
          /\ IsSome(fs.npmLock) => (IsSome(lockfile) /\ lockfile[1].type = "npm")
          /\ (~IsSome(fs.npmLock) /\ IsSome(fs.yarnLock))
                => (IsSome(lockfile) /\ lockfile[1].type = "yarn")
          /\ (~IsSome(fs.npmLock) /\ ~IsSome(fs.yarnLock) /\ IsSome(fs.pnpmLock))
                => (IsSome(lockfile) /\ lockfile[1].type = "pnpm")
          /\ (lockfile = None)
                <=> (~IsSome(fs.npmLock) /\ ~IsSome(fs.yarnLock) /\ ~IsSome(fs.pnpmLock))
          /\ fs.npmLock = Some(NpmLockOfAcme) => Keys(lockfile[1].packages) = <<NameAcmeLib>>
          /\ (~IsSome(fs.npmLock) /\ fs.yarnLock = Some(YarnLockOfLodash))
                => Keys(lockfile[1].packages) = <<NameLodash>>
          /\ (~IsSome(fs.npmLock) /\ ~IsSome(fs.yarnLock) /\ fs.pnpmLock = Some(PnpmLockOfOrg))
                => Keys(lockfile[1].packages) = <<NameOrgCli>>
    /\ pc = "threw" => (IsSome(fs.npmLock) /\ ~fs.npmLock[1].wellFormed)

\* parseLockfile has returned for a root that holds all three lockfiles
C15_Witness ==
    /\ LockfileRead
    /\ fs.npmLock = Some(NpmLockOfAcme)
    /\ fs.yarnLock = Some(YarnLockOfLodash)
    /\ fs.pnpmLock = Some(PnpmLockOfOrg)
    /\ lockfile[1].type = "npm"

\* the first block of seq, a sequence of indices of pool, that holds an entry for
\* the name of block i
FirstOfName(pool, seq, i) ==
    CHOOSE h \in 1..i :
        /\ pool[seq[h]].entry # None
        /\ pool[seq[h]].entry[1].name = pool[seq[i]].entry[1].name
        /\ \A g \in 1..(h - 1) :
              pool[seq[g]].entry = None
                \/ pool[seq[g]].entry[1].name # pool[seq[i]].entry[1].name

\* C16: for a yarn.lock made of blocks, the table holds for every package name
\* the version, resolved URL and integrity of the first block of that name
C16_FirstBlockWins ==
    \A seq \in SeqsUpTo(Len(YarnBlockPool), MaxBlocks) :
        (/\ LockfileRead
         /\ ~IsSome(fs.npmLock)
         /\ fs.yarnLock = Some(YarnContent(seq)))
          => \A i \in 1..Len(seq) :
                YarnBlockPool[seq[i]].entry # None
                  => MapLookup(lockfile[1].packages, YarnBlockPool[seq[i]].entry[1].name)
                       = YarnBlockPool[seq[FirstOfName(YarnBlockPool, seq, i)]].entry

\* C17: for a pnpm-lock.yaml whose packages section is made of blocks, followed or
\* not by another section, the table holds exactly one entry for every package
\* name of the section, with the version and integrity of the first block of
\* that name
C17_FirstSeenKept ==
    \A seq \in SeqsUpTo(Len(PnpmBlockPool), MaxBlocks), tail \in PnpmTails :
        (/\ LockfileRead
         /\ ~IsSome(fs.npmLock)
         /\ ~IsSome(fs.yarnLock)
         /\ fs.pnpmLock = Some(PnpmContent(seq, tail)))
          => \A i \in 1..Len(seq) :
                LET name == PnpmBlockPool[seq[i]].entry[1].name
                    table == lockfile[1].packages
                IN /\ Cardinality({k \in 1..Len(table) : table[k].key = name}) = 1
                   /\ MapLookup(table, name)
                        = PnpmBlockPool[seq[FirstOfName(PnpmBlockPool, seq, i)]].entry

\* a file was parsed in which two blocks of @acme/lib with different versions are
\* separated by a block of another package, the second being last in the file
C17_Witness ==
    /\ LockfileRead
    /\ fs.pnpmLock = Some(PnpmContent(<<1, 3, 2>>, <<>>))
    /\ Len(lockfile[1].packages) = 2
    /\ MapLookup(lockfile[1].packages, NameAcmeLib)[1].version = Version100

\* the package name of an install path: what follows its last node_modules/
BareName(key) ==
    IF \E i \in 1..Len(key) : key[i] = "node_modules/"
    THEN SubSeq(key,
                (CHOOSE i \in 1..Len(key) :
                    key[i] = "node_modules/" /\ \A h \in (i + 1)..Len(key) : key[h] # "node_modules/") + 1,
                Len(key))
    ELSE key

\* the keys of the packages map of the parsed package-lock.json, the root key left out
InstallPaths ==
    IF IsSome(fs.npmLock) /\ fs.npmLock[1].wellFormed /\ IsSome(fs.npmLock[1].json.packages)
    THEN SelectSeq(Keys(fs.npmLock[1].json.packages[1]), LAMBDA key : key # <<>>)
    ELSE <<>>

\* C18: for a package-lock.json whose packages map holds N >= 1 scoped packages
\* with distinct names (and possibly the root key), the table has exactly N
\* entries, one under the bare name of each package, and none from the legacy
\* dependencies map; when the packages map gives no entry the table is the
\* legacy dependencies map
C18_BareNameKeys ==
    (/\ LockfileRead
     /\ IsSome(fs.npmLock)
     /\ \A i \in 1..Len(InstallPaths) : BareName(InstallPaths[i])[1] = "@"
     /\ \A i, j \in 1..Len(InstallPaths) :
           i # j => BareName(InstallPaths[i]) # BareName(InstallPaths[j]))
      => LET table == lockfile[1].packages
             legacy == fs.npmLock[1].json.dependencies
         IN IF Len(InstallPaths) >= 1
            THEN /\ Len(table) = Len(InstallPaths)
                 /\ \A i \in 1..Len(InstallPaths) :
                       /\ MapHas(table, BareName(InstallPaths[i]))
                       /\ MapLookup(table, BareName(InstallPaths[i]))[1].name
                            = BareName(InstallPaths[i])
            ELSE Keys(table) = (IF IsSome(legacy) THEN Keys(legacy[1]) ELSE <<>>)

\* parseRegistryConfig has returned
ConfigRead == pc = "parsed"

\* C19: in the merged config every scope of either file is present once, with the
\* registry .npmrc gives it when .npmrc defines the scope and the one .yarnrc.yml
\* gives it otherwise, no other scope is present, and the default registry is the
\* one of .npmrc when .npmrc defines one and the one of .yarnrc.yml otherwise
C19_NpmrcOverYarnrc ==
    ConfigRead =>
        LET a == parseNpmrc(fs)
            b == parseYarnrc(fs)
            merged == registryConfig.scopeRegistries
        IN /\ \A i \in 1..Len(a.scopeRegistries) :
                 MapLookup(merged, a.scopeRegistries[i].key) = Some(a.scopeRegistries[i].value)
           /\ \A i \in 1..Len(b.scopeRegistries) :
                 ~MapHas(a.scopeRegistries, b.scopeRegistries[i].key)
                   => MapLookup(merged, b.scopeRegistries[i].key)
                        = Some(b.scopeRegistries[i].value)
           /\ \A i \in 1..Len(merged) :
                 /\ MapHas(a.scopeRegistries, merged[i].key)
                      \/ MapHas(b.scopeRegistries, merged[i].key)
                 /\ \A j \in 1..Len(merged) : merged[i].key = merged[j].key => i = j
           /\ registryConfig.defaultRegistry
                = (IF a.defaultRegistry # None THEN a.defaultRegistry ELSE b.defaultRegistry)
           /\ (fs.npmrc = Some(NpmrcAcme) /\ fs.yarnrc = Some(YarnrcFull))
                 => /\ MapLookup(merged, ScopeAcme) = Some(PrivateUrl)
                    /\ MapLookup(merged, <<"@", "y">>) = Some(PublicUrl)
                    /\ registryConfig.defaultRegistry = Some(OtherUrl)
           /\ (fs.npmrc = Some(NpmrcFull) /\ fs.yarnrc = Some(YarnrcFull))
                 => /\ MapLookup(merged, ScopeAcme) = Some(PrivateUrl)
                    /\ MapLookup(merged, ScopeOrg) = Some(PublicUrl)
                    /\ registryConfig.defaultRegistry = Some(PublicUrl)

\* both files were read, they give @acme different registries, .yarnrc.yml alone
\* defines @y and the default
C19_Witness ==
    /\ ConfigRead
    /\ fs.npmrc = Some(NpmrcAcme)
    /\ fs.yarnrc = Some(YarnrcFull)
    /\ Len(registryConfig.scopeRegistries) = 2

\* C20: hasConfig of the merged config is true exactly when .npmrc or .yarnrc.yml
\* exists, whatever they contain, and when neither exists the config has no
\* default registry and no scope
C20_HasConfigIffFile ==
    ConfigRead =>
        /\ registryConfig.hasConfig <=> (IsSome(fs.npmrc) \/ IsSome(fs.yarnrc))
        /\ (~IsSome(fs.npmrc) /\ ~IsSome(fs.yarnrc))
              => /\ registryConfig.defaultRegistry = None
                 /\ registryConfig.scopeRegistries = <<>>

\* an empty .npmrc alone was read: a config that defines nothing
C20_Witness ==
    /\ ConfigRead
    /\ fs.npmrc = Some(NpmrcEmpty)
    /\ ~IsSome(fs.yarnrc)
    /\ registryConfig = [defaultRegistry |-> None, scopeRegistries |-> <<>>, hasConfig |-> TRUE]

\* a line of .yarnrc.yml that sets npmRegistryServer at column 0
TopLevelServerLine(line) == TokenAt(line, 1) = "npmRegistryServer:"

\* C21: when .yarnrc.yml alone is read, the config has a default registry only if
\* the file has an npmRegistryServer line at column 0; a file whose only
\* npmRegistryServer line is nested under a scope key of npmScopes gives no
\* default registry and that line fills the scope's entry only
C21_DefaultFromTopLevelOnly ==
    (ConfigRead /\ ~IsSome(fs.npmrc) /\ IsSome(fs.yarnrc)) =>
        /\ IsSome(registryConfig.defaultRegistry)
              => \E l \in 1..Len(fs.yarnrc[1]) : TopLevelServerLine(fs.yarnrc[1][l])
        /\ fs.yarnrc[1] = YarnrcScopesOnly
              => /\ registryConfig.defaultRegistry = None
                 /\ registryConfig.scopeRegistries = <<[key |-> ScopeOrg, value |-> OtherUrl]>>

\* scanWorkspace has returned
WorkspaceReturned == ws.pc = "returned"

RECURSIVE FindingsOf(_)
\* the findings of the packages of packageResults, one list after the other
FindingsOf(packageResults) ==
    IF packageResults = <<>> THEN <<>>
    ELSE Head(packageResults).result.findings \o FindingsOf(Tail(packageResults))

\* C22: in what scanWorkspace returns, combinedSummary.total is the number of
\* findings of the packages of packageResults and each severity count is the
\* number of those findings with that severity; the result is marked a workspace
\* exactly when one was detected, and without one packageResults is the single
\* package "root" whose summary is the combined summary
C22_CombinedIsAggregate ==
    WorkspaceReturned =>
        LET out == ws.out[1]
            all == FindingsOf(out.packageResults)
        IN /\ out.combinedSummary.total = Len(all)
           /\ out.combinedSummary.critical = CountSeverity(all, "critical")
           /\ out.combinedSummary.high = CountSeverity(all, "high")
           /\ out.combinedSummary.medium = CountSeverity(all, "medium")
           /\ out.combinedSummary.low = CountSeverity(all, "low")
           /\ out.combinedSummary.info = CountSeverity(all, "info")
           /\ out.isWorkspace <=> IsSome(ws.call.workspace)
           /\ ~out.isWorkspace
                => /\ Len(out.packageResults) = 1
                   /\ out.packageResults[1].packageName = "root"
                   /\ out.packageResults[1].result.summary = out.combinedSummary

\* a workspace whose root and two packages were scanned, with findings of two
\* severities from different packages
C22_Witness ==
    /\ WorkspaceReturned
    /\ ws.out[1].isWorkspace
    /\ Len(ws.out[1].packageResults) = 3
    /\ ws.out[1].packageResults[1].result.summary.total = 4
    /\ ws.out[1].packageResults[2].result.summary.medium >= 2
    /\ ws.out[1].combinedSummary.high >= 2
    /\ ws.out[1].combinedSummary.info >= 1

RECURSIVE ScannedNames(_)
\* the names of the packages whose scan does not throw, in discovery order
ScannedNames(packages) ==
    IF packages = <<>> THEN <<>>
    ELSE (IF ScanThrows(Head(packages).project) THEN <<>> ELSE <<Head(packages).name>>)
         \o ScannedNames(Tail(packages))

\* C23: in what scanWorkspace returns for a workspace, packageResults names
\* exactly the packages whose scan did not throw: root first when its scan did
\* not throw, then the workspace packages in discovery order, those after a
\* failed package included; allFindings holds the findings of those packages only
C23_FailedPackageSkipped ==
    (WorkspaceReturned /\ IsSome(ws.call.workspace)) =>
        LET out == ws.out[1]
        IN /\ [i \in 1..Len(out.packageResults) |-> out.packageResults[i].packageName]
                = (IF ScanThrows(ws.call.root) THEN <<>> ELSE <<"root">>)
                  \o ScannedNames(ws.call.workspace[1])
           /\ ws.allFindings = FindingsOf(out.packageResults)
           /\ out.combinedSummary.total = Len(ws.allFindings)

\* the first package's package-lock.json is not JSON and the second package is
\* scanned after it: the result lists root and the second package
C23_Witness ==
    /\ WorkspaceReturned
    /\ IsSome(ws.call.workspace)
    /\ Len(ws.call.workspace[1]) = 2
    /\ ws.call.workspace[1][1].project = ProjectPool[3]
    /\ ws.call.workspace[1][2].project = ProjectPool[1]
    /\ Len(ws.out[1].packageResults) = 2
    /\ ws.out[1].packageResults[2].packageName = "b"
    /\ ws.out[1].combinedSummary.total > ws.out[1].packageResults[1].result.summary.total

\* a bare major.minor.patch, optionally prefixed with =, and nothing else
ExactForm(version) ==
    LET v == IF StartsWith(version, <<"=">>) THEN Tail(version) ELSE version
        a == DigitsEnd(v, 1)
        b == DigitsEnd(v, a + 1)
    IN /\ SemverPrefix(v)
       /\ DigitsEnd(v, b + 1) = Len(v) + 1

\* C24: for every scoped dependency of a scanned project, isVersionPinned holds
\* of its declared version exactly when the version is major.minor.patch with an
\* optional leading =, and the rules gave it a DC-007 finding exactly when it is
\* not of that form
C24_PinnedIffExactForm ==
    ws.pc \in {"packages", "returned"} =>
        \A i \in 1..Len(context.dependencies) :
            LET dep == context.dependencies[i]
            IN dep.isScoped =>
                /\ isVersionPinned(dep.version) <=> ExactForm(dep.version)
                /\ (\E j \in 1..Len(ruleFindings) :
                        /\ ruleFindings[j].ruleId = "DC-007"
                        /\ ruleFindings[j].packageName = Some(dep.name))
                   <=> ~ExactForm(dep.version)

\* the rules gave the package a finding of the rule
RuleHit(id, name) ==
    \E j \in 1..Len(ruleFindings) :
        ruleFindings[j].ruleId = id /\ ruleFindings[j].packageName = Some(name)

\* C25: every DC-003 finding of the rules is for a scoped dependency whose scope
\* is mapped to a registry that is not public and whose lockfile entry resolves
\* from a public host; a dependency whose scope has no mapping or is mapped to a
\* public registry has no DC-003 finding, and no dependency has both a DC-002
\* and a DC-003 finding
C25_DC003NeedsPrivateMapping ==
    RulesRan =>
        \A i \in 1..Len(context.dependencies) :
            LET dep == context.dependencies[i]
                mapping == IF dep.isScoped
                           THEN MapLookup(registryConfig.scopeRegistries, dep.scope[1])
                           ELSE None
            IN /\ RuleHit("DC-003", dep.name)
                    => /\ dep.isScoped
                       /\ IsSome(mapping)
                       /\ ~isPublicRegistry(mapping)
                       /\ Truthy(dep.resolvedUrl)
                       /\ isPublicRegistry(dep.resolvedUrl)
               /\ ~(RuleHit("DC-002", dep.name) /\ RuleHit("DC-003", dep.name))

\* C26: the dependency list of a scanned project has one entry per manifest
\* dependency name; for a name declared in both dependencies and
\* devDependencies the entry is the development one; and no rule gives two
\* findings to the same package
C26_OneEntryPerName ==
    ws.pc \in {"packages", "returned"} =>
        /\ \A i, j \in 1..Len(context.dependencies) :
              context.dependencies[i].name = context.dependencies[j].name => i = j
        /\ \A i \in 1..Len(context.dependencies) :
              MapHas(packageJson.devDependencies, context.dependencies[i].name)
                 => /\ context.dependencies[i].isDev
                    /\ Some(context.dependencies[i].version)
                         = MapLookup(packageJson.devDependencies, context.dependencies[i].name)
        /\ \A i, j \in 1..Len(ruleFindings) :
              (/\ ruleFindings[i].ruleId = ruleFindings[j].ruleId
               /\ IsSome(ruleFindings[i].packageName)
               /\ ruleFindings[i].packageName = ruleFindings[j].packageName) => i = j

\* the number of DC-006 findings of the rules with the severity for the package
CountInstallScripts(sev, packageName) ==
    Cardinality({j \in 1..Len(ruleFindings) :
                    /\ ruleFindings[j].ruleId = "DC-006"
                    /\ ruleFindings[j].severity = sev
                    /\ ruleFindings[j].packageName = packageName})

\* the lockfile entry of the name carries hasInstallScripts: true
FlaggedInLockfile(name) ==
    /\ IsSome(lockfile)
    /\ MapHas(lockfile[1].packages, name)
    /\ MapLookup(lockfile[1].packages, name)[1].hasInstallScripts = Some(TRUE)

\* C27: the DC-006 findings of the rules are one medium finding for the project
\* exactly when the manifest has a preinstall, install or postinstall script, its
\* evidence naming exactly the scripts that exist, and for every manifest
\* dependency name one high finding when the name is scoped and its lockfile
\* entry carries the install-script flag and none otherwise; there is no other
\* DC-006 finding
C27_InstallScriptFindings ==
    (RulesRan \/ ws.pc \in {"packages", "returned"}) =>
        LET names == ManifestNames(packageJson)
            hasScript == packageJson.hasPreinstall \/ packageJson.hasInstall
                           \/ packageJson.hasPostinstall
        IN /\ CountInstallScripts("medium", packageJson.name) = (IF hasScript THEN 1 ELSE 0)
           /\ \A j \in 1..Len(ruleFindings) :
                 (ruleFindings[j].ruleId = "DC-006" /\ ruleFindings[j].severity = "medium")
                    => /\ ruleFindings[j].packageName = packageJson.name
                       /\ (\E k \in 1..Len(ruleFindings[j].evidence[1]) :
                               ruleFindings[j].evidence[1][k] = "preinstall")
                            <=> packageJson.hasPreinstall
                       /\ (\E k \in 1..Len(ruleFindings[j].evidence[1]) :
                               ruleFindings[j].evidence[1][k] = "install")
                            <=> packageJson.hasInstall
                       /\ (\E k \in 1..Len(ruleFindings[j].evidence[1]) :
                               ruleFindings[j].evidence[1][k] = "postinstall")
                            <=> packageJson.hasPostinstall
           /\ \A i \in 1..Len(names) :
                 CountInstallScripts("high", Some(names[i]))
                    = (IF ScopedForm(names[i]) /\ FlaggedInLockfile(names[i]) THEN 1 ELSE 0)
           /\ \A j \in 1..Len(ruleFindings) :
                 ruleFindings[j].ruleId = "DC-006"
                    => \/ ruleFindings[j].severity = "medium"
                       \/ /\ ruleFindings[j].severity = "high"
                          /\ \E i \in 1..Len(names) : ruleFindings[j].packageName = Some(names[i])

RECURSIVE KeysReadInSection(_, _)
\* the package names of the key lines read while inside the packages section,
\* when the section is entered by a line that is `packages:` at column 0 and left
\* at the next non-indented non-empty line that has not the shape of a key
KeysReadInSection(lines, inside) ==
    IF lines = <<>> THEN <<>>
    ELSE LET line == Head(lines)
             match == PnpmKeyMatch(Trim(line))
         IN IF StartsUnindented(line) /\ Trim(line) = <<"packages:">>
            THEN KeysReadInSection(Tail(lines), TRUE)
            ELSE IF inside /\ StartsUnindented(line) /\ Trim(line) # <<>> /\ ~IsSome(match)
            THEN KeysReadInSection(Tail(lines), FALSE)
            ELSE (IF inside /\ IsSome(match) THEN <<match[1].name>> ELSE <<>>)
                 \o KeysReadInSection(Tail(lines), inside)

\* C28: after parsePnpmLockfile the table holds exactly one entry for every
\* package name whose key line was read inside the packages section, the section
\* being entered only by a bare `packages:` line at column 0 and left at the next
\* non-indented non-empty line that is not key-shaped: the entry pending at the
\* end of input is there, and a key line outside the section gives no entry
C28_SectionEntriesOnly ==
    (/\ LockfileRead
     /\ ~IsSome(fs.npmLock)
     /\ ~IsSome(fs.yarnLock)
     /\ IsSome(fs.pnpmLock))
      => LET table == lockfile[1].packages
             names == KeysReadInSection(fs.pnpmLock[1], FALSE)
         IN /\ \A i \in 1..Len(names) :
                  Cardinality({k \in 1..Len(table) : table[k].key = names[i]}) = 1
            /\ \A k \in 1..Len(table) : \E i \in 1..Len(names) : names[i] = table[k].key

\* C29: every call of checkPublicRegistry eventually returns, and every batch it
\* starts issues at least one probe
C29_ReturnsAndProbes ==
    /\ <>(ckPc = "returned")
    /\ [](\A b \in 1..Len(batchLog) : batchLog[b] >= 1)

RECURSIVE FindingsInInputOrder(_)
\* the findings of the scoped dependencies from index k on, each from the
\* response its probe received, in the order of `scoped`
FindingsInInputOrder(k) ==
    IF k > Len(ckScoped) THEN <<>>
    ELSE ResultFindings([dep |-> ckScoped[k], state |-> "fulfilled",
                         checkResult |-> packageExistsOnPublicNpm(outcomeLog[k][1])])
         \o FindingsInInputOrder(k + 1)

\* C30: the list checkPublicRegistry returns is determined by the scoped
\* dependencies and the response each probe received: it holds their findings in
\* the order of the scoped dependencies in the input list, in whatever order the
\* probes of a batch settled
C30_InputOrderWhateverSettles ==
    ckPc = "returned" =>
        /\ \A k \in 1..Len(ckScoped) : Len(outcomeLog[k]) = 1
        /\ ckFindings = FindingsInInputOrder(1)
        /\ \A i, j \in 1..Len(ckFindings) :
              i < j => \E a, b \in 1..Len(ckScoped) :
                          /\ a < b
                          /\ ckFindings[i].packageName = Some(ckScoped[a].name)
                          /\ ckFindings[j].packageName = Some(ckScoped[b].name)

\* a call returned whose first batch held at least two probes, the first of them
\* failing and the second finding the package: two findings of one batch, of
\* different outcomes
C30_Witness ==
    /\ ckPc = "returned"
    /\ ckArgs.concurrency >= 2
    /\ Len(ckScoped) >= 2
    /\ outcomeLog[1] = <<Threw>>
    /\ outcomeLog[2] = <<Ok200>>
    /\ Len(ckFindings) >= 2
    /\ ckFindings[1].severity = "low"
    /\ ckFindings[2].severity = "high"

=============================================================================
